---- MODULE Spec2Model ----
(***************************************************************************)
(* Shrdlite planner: the generic A* engine (Graph.ts, aStarSearch and      *)
(* followParent), the block-world planner built on it (Planner module,    *)
(* WorldGraph, WorldNode) and the interpreter's interpretCommand with      *)
(* findMatchingObjects, obeyRelation and obeyLaws.                         *)
(*                                                                         *)
(* The engine is run over two families of graphs:                          *)
(*   - small explicit graphs with ordered edge lists, edge costs and a     *)
(*     heuristic table (the Graph<Node> interface, as the grid graphs of   *)
(*     the test driver implement it);                                      *)
(*   - the block world, whose nodes are WorldNode values.                  *)
(* Node objects are created afresh by every outgoingEdges call, so the     *)
(* only object that is reference-equal to `start` is start itself: a node  *)
(* reference is a record [n |-> value, s |-> is-the-start-object].         *)
(***************************************************************************)
EXTENDS Integers, Sequences, FiniteSets, TLC

\* ---------------------------------------------------------------- bounds
NumNodes == 3
MaxCost == 3
MaxPath == 6

\* ------------------------------------------------------------- constants
Infinity == 1000000
PlannerTimeout == 100
TestTimeout == 1000
null == "null"
\* JavaScript's undefined, as a node reference and as a search result
noRef == [n |-> 0, s |-> FALSE]
undefined == [undef |-> TRUE]

VARIABLES
    graph,        \* the Graph<Node> argument
    goalArg,      \* what the goal predicate closes over
    hArg,         \* what the heuristic closes over
    timeout,      \* the timeout argument, in seconds
    elapsed,      \* Date.now() - startTime as last read, in milliseconds
    start,        \* the start node (value)
    costDict, fValDict, parentDict,   \* collections.Dictionary, keyed by toString
    frontier,     \* collections.PriorityQueue of node references
    visited,      \* collections.Set, keyed by toString
    pc,           \* position in aStarSearch / plan
    goalRef,      \* the node handed to followParent
    followCur,    \* followParent's `current`
    path,         \* followParent's `path`
    result,       \* what aStarSearch returned
    log,          \* console.log output
    currentState, \* plan's currentState argument (WorldState)
    interpretations,  \* plan's interpretations argument
    idx,          \* position of plan's forEach (1-based)
    plans, errors,    \* plan's local arrays
    planOut,      \* what plan returned or threw
    thisNode,     \* the WorldNode whose neighbours() are taken (`this`)
    from,         \* the node that generated it (Edge.from), undefined at first
    goalRet,      \* what a call of the goal closure returned: <<>> before it
    hRet,         \* what a call of the heuristics closure returned: <<>> before it
    heap,         \* the stacks arrays allocated so far, by address
    nodes,        \* the WorldNode objects created so far: stacks is an address
    lastCall,     \* the last neighbours() call: receiver and returned nodes
    cmd,          \* interpretCommand's cmd argument (Parser.Command)
    state,        \* interpretCommand's state argument (WorldState)
    interpOut,    \* what interpretCommand returned or threw: <<>> before it
    lawArgs,      \* the arguments of a call of obeyLaws
    lawRet,       \* what that call returned: <<>> before it
    currentNode   \* aStarSearch's `current`: the node last dequeued

searchVars == <<graph, goalArg, hArg, timeout, elapsed, start, costDict, fValDict,
                parentDict, frontier, visited, pc, goalRef, followCur, path,
                result, log>>

planVars == <<currentState, interpretations, idx, plans, errors, planOut>>

worldVars == <<thisNode, from, goalRet, hRet>>

storeVars == <<heap, nodes, lastCall>>

interpVars == <<cmd, state, interpOut, lawArgs, lawRet>>

loopVars == <<currentNode>>

\* ------------------------------------------------- explicit test graphs
Nodes == 1..NumNodes

\* The edges a test graph may have: self-loops, steps to the next and to the
\* previous node, and one chord from the first to the last node.
CandidateEdges ==
    {<<i, i>> : i \in Nodes}
    \cup {<<i, i + 1>> : i \in 1..(NumNodes - 1)}
    \cup {<<i + 1, i>> : i \in 1..(NumNodes - 1)}
    \cup {<<1, NumNodes>>}

EdgeCost(g, i, j) == IF i = 1 /\ j = NumNodes THEN g.chordCost ELSE 1

RECURSIVE EdgeListFrom(_, _, _)
EdgeListFrom(g, i, j) ==
    IF j > NumNodes THEN <<>>
    ELSE (IF <<i, j>> \in g.edges
          THEN <<[to |-> j, cost |-> EdgeCost(g, i, j)]>>
          ELSE <<>>) \o EdgeListFrom(g, i, j + 1)

\* ------------------------------------------------------------ block world
NumCols == 2
NumObjects == 3

\* The object definitions of the example world (state.objects).
Catalogue ==
    << [id |-> "a", form |-> "ball",  size |-> "small"],
       [id |-> "b", form |-> "box",   size |-> "large"],
       [id |-> "c", form |-> "brick", size |-> "small"],
       [id |-> "d", form |-> "table", size |-> "large"] >>

Objects == {Catalogue[i].id : i \in 1..NumObjects}

ObjectDefs ==
    [o \in Objects |->
        LET i == CHOOSE j \in 1..NumObjects : Catalogue[j].id = o
        IN  [form |-> Catalogue[i].form, size |-> Catalogue[i].size]]

isFinite(x) == x < Infinity

Abs(x) == IF x < 0 THEN -x ELSE x

Min(x, y) == IF x <= y THEN x ELSE y

\* Laws under which a ball may support an object.
obeyLawsBallsSupport(mainObject, relativeObject, relation) ==
    IF relation = "ontop" \/ relation = "inside"
    THEN
        IF /\ relativeObject.form = "floor"
           /\ "column" \in DOMAIN relativeObject
           /\ relativeObject.column <= 0 THEN FALSE
        ELSE IF mainObject.size = "large" /\ relativeObject.size = "small" THEN FALSE
        ELSE IF /\ mainObject.form = "ball"
                /\ relativeObject.form # "box"
                /\ relativeObject.form # "floor" THEN FALSE
        ELSE IF relativeObject.form = "box" /\ relation # "inside" THEN FALSE
        ELSE IF relativeObject.form # "box" /\ relation # "ontop" THEN FALSE
        ELSE IF /\ mainObject.form = "box"
                /\ relativeObject.form \in {"pyramid", "plank", "box"}
                /\ mainObject.size = relativeObject.size THEN FALSE
        ELSE IF /\ mainObject.size = "small" /\ relativeObject.size = "small"
                /\ mainObject.form = "box"
                /\ relativeObject.form \in {"brick", "pyramid", "box"} THEN FALSE
        ELSE IF /\ mainObject.size = "large" /\ mainObject.form = "box"
                /\ relativeObject.size = "large" /\ relativeObject.form = "box" THEN FALSE
        ELSE TRUE
    ELSE TRUE

\* Laws under which a ball may rest on any object that is not a ball.
obeyLawsBallsAnywhere(mainObject, relativeObject, relation) ==
    IF relation = "ontop" \/ relation = "inside"
    THEN
        IF /\ relativeObject.form = "floor"
           /\ "column" \in DOMAIN relativeObject
           /\ relativeObject.column <= 0 THEN FALSE
        ELSE IF mainObject.size = "large" /\ relativeObject.size = "small" THEN FALSE
        ELSE IF relativeObject.form = "ball" THEN FALSE
        ELSE IF relativeObject.form = "box" /\ relation # "inside" THEN FALSE
        ELSE IF relativeObject.form # "box" /\ relation # "ontop" THEN FALSE
        ELSE IF /\ mainObject.form = "box"
                /\ relativeObject.form \in {"pyramid", "plank", "box"}
                /\ mainObject.size = relativeObject.size THEN FALSE
        ELSE IF /\ mainObject.size = "small" /\ relativeObject.size = "small"
                /\ mainObject.form = "box"
                /\ relativeObject.form \in {"brick", "pyramid", "box"} THEN FALSE
        ELSE IF /\ mainObject.size = "large" /\ mainObject.form = "box"
                /\ relativeObject.size = "large" /\ relativeObject.form = "box" THEN FALSE
        ELSE TRUE
    ELSE TRUE

\* Laws without the two rules on what may support a box.
obeyLawsBoxesAnywhere(mainObject, relativeObject, relation) ==
    IF relation = "ontop" \/ relation = "inside"
    THEN
        IF /\ relativeObject.form = "floor"
           /\ "column" \in DOMAIN relativeObject
           /\ relativeObject.column <= 0 THEN FALSE
        ELSE IF mainObject.size = "large" /\ relativeObject.size = "small" THEN FALSE
        ELSE IF relativeObject.form = "ball" THEN FALSE
        ELSE IF /\ mainObject.form = "ball"
                /\ relativeObject.form # "box"
                /\ relativeObject.form # "floor" THEN FALSE
        ELSE IF relativeObject.form = "box" /\ relation # "inside" THEN FALSE
        ELSE IF relativeObject.form # "box" /\ relation # "ontop" THEN FALSE
        ELSE IF /\ mainObject.form = "box"
                /\ relativeObject.form \in {"pyramid", "plank", "box"}
                /\ mainObject.size = relativeObject.size THEN FALSE
        ELSE TRUE
    ELSE TRUE

\* Laws that take either relation name for any supporting object.
obeyLawsAnyRelationName(mainObject, relativeObject, relation) ==
    IF relation = "ontop" \/ relation = "inside"
    THEN
        IF /\ relativeObject.form = "floor"
           /\ "column" \in DOMAIN relativeObject
           /\ relativeObject.column <= 0 THEN FALSE
        ELSE IF mainObject.size = "large" /\ relativeObject.size = "small" THEN FALSE
        ELSE IF relativeObject.form = "ball" THEN FALSE
        ELSE IF /\ mainObject.form = "ball"
                /\ relativeObject.form # "box"
                /\ relativeObject.form # "floor" THEN FALSE
        ELSE IF /\ mainObject.form = "box"
                /\ relativeObject.form \in {"pyramid", "plank", "box"}
                /\ mainObject.size = relativeObject.size THEN FALSE
        ELSE IF /\ mainObject.size = "small" /\ relativeObject.size = "small"
                /\ mainObject.form = "box"
                /\ relativeObject.form \in {"brick", "pyramid", "box"} THEN FALSE
        ELSE IF /\ mainObject.size = "large" /\ mainObject.form = "box"
                /\ relativeObject.size = "large" /\ relativeObject.form = "box" THEN FALSE
        ELSE TRUE
    ELSE TRUE

\* Interpreter.obeyLaws, on the object definitions the planner hands it.
obeyLaws(mainObject, relativeObject, relation) ==
    IF relation = "ontop" \/ relation = "inside"
    THEN
        IF /\ relativeObject.form = "floor"
           /\ "column" \in DOMAIN relativeObject
           /\ relativeObject.column <= 0 THEN FALSE
        ELSE IF mainObject.size = "large" /\ relativeObject.size = "small" THEN FALSE
        ELSE IF relativeObject.form = "ball" THEN FALSE
        ELSE IF /\ mainObject.form = "ball"
                /\ relativeObject.form # "box"
                /\ relativeObject.form # "floor" THEN FALSE
        ELSE IF relativeObject.form = "box" /\ relation # "inside" THEN FALSE
        ELSE IF relativeObject.form # "box" /\ relation # "ontop" THEN FALSE
        ELSE IF /\ mainObject.form = "box"
                /\ relativeObject.form \in {"pyramid", "plank", "box"}
                /\ mainObject.size = relativeObject.size THEN FALSE
        ELSE IF /\ mainObject.size = "small" /\ relativeObject.size = "small"
                /\ mainObject.form = "box"
                /\ relativeObject.form \in {"brick", "pyramid", "box"} THEN FALSE
        ELSE IF /\ mainObject.size = "large" /\ mainObject.form = "box"
                /\ relativeObject.size = "large" /\ relativeObject.form = "box" THEN FALSE
        ELSE TRUE
    ELSE TRUE

\* WorldNode: stacks (columns bottom to top), armCol (0-based), holding.
WorldNode(stacks, armCol, holding) ==
    [stacks |-> stacks, armCol |-> armCol, holding |-> holding]

\* JavaScript array index (0-based) into a TLA+ sequence
At(seq, i) == seq[i + 1]

\* A pop that leaves the top object in its column.
popKeepsTop(stacks, col) == stacks

pop(stacks, col) ==
    [stacks EXCEPT ![col + 1] = SubSeq(@, 1, Len(@) - 1)]

\* A push that puts the item in the place of the top object.
pushReplacesTop(stacks, col, item) ==
    [stacks EXCEPT ![col + 1] =
        IF Len(@) = 0 THEN <<item>> ELSE [@ EXCEPT ![Len(@)] = item]]

push(stacks, col, item) ==
    [stacks EXCEPT ![col + 1] = Append(@, item)]

\* neighbours() whose arm only moves down from column 2 or beyond.
neighboursLeftFromTwo(n, objects) ==
    LET stackCopy == n.stacks
        column == At(stackCopy, n.armCol)
        top == column[Len(column)]
        left == IF n.armCol > 1
                THEN <<WorldNode(stackCopy, n.armCol - 1, n.holding)>> ELSE <<>>
        right == IF n.armCol # Len(stackCopy) - 1
                 THEN <<WorldNode(stackCopy, n.armCol + 1, n.holding)>> ELSE <<>>
        pickOrDrop ==
            IF n.holding = null /\ Len(column) > 0
            THEN <<WorldNode(pop(stackCopy, n.armCol), n.armCol, top)>>
            ELSE IF /\ n.holding # null
                    /\ \/ Len(column) = 0
                       \/ obeyLaws(objects[n.holding], objects[top], "ontop")
                       \/ obeyLaws(objects[n.holding], objects[top], "inside")
            THEN <<WorldNode(push(stackCopy, n.armCol, n.holding), n.armCol, null)>>
            ELSE <<>>
    IN  left \o right \o pickOrDrop

\* neighbours() that moves the arm down from column 0 as well.
neighboursUnguardedLeft(n, objects) ==
    LET stackCopy == n.stacks
        column == At(stackCopy, n.armCol)
        top == column[Len(column)]
        left == <<WorldNode(stackCopy, n.armCol - 1, n.holding)>>
        right == IF n.armCol # Len(stackCopy) - 1
                 THEN <<WorldNode(stackCopy, n.armCol + 1, n.holding)>> ELSE <<>>
        pickOrDrop ==
            IF n.holding = null /\ Len(column) > 0
            THEN <<WorldNode(pop(stackCopy, n.armCol), n.armCol, top)>>
            ELSE IF /\ n.holding # null
                    /\ \/ Len(column) = 0
                       \/ obeyLaws(objects[n.holding], objects[top], "ontop")
                       \/ obeyLaws(objects[n.holding], objects[top], "inside")
            THEN <<WorldNode(push(stackCopy, n.armCol, n.holding), n.armCol, null)>>
            ELSE <<>>
    IN  left \o right \o pickOrDrop

\* neighbours() whose drop leaves the object in the arm too.
neighboursDropKeepsHolding(n, objects) ==
    LET stackCopy == n.stacks
        column == At(stackCopy, n.armCol)
        top == column[Len(column)]
        left == IF n.armCol # 0
                THEN <<WorldNode(stackCopy, n.armCol - 1, n.holding)>> ELSE <<>>
        right == IF n.armCol # Len(stackCopy) - 1
                 THEN <<WorldNode(stackCopy, n.armCol + 1, n.holding)>> ELSE <<>>
        pickOrDrop ==
            IF n.holding = null /\ Len(column) > 0
            THEN <<WorldNode(pop(stackCopy, n.armCol), n.armCol, top)>>
            ELSE IF /\ n.holding # null
                    /\ \/ Len(column) = 0
                       \/ obeyLaws(objects[n.holding], objects[top], "ontop")
                       \/ obeyLaws(objects[n.holding], objects[top], "inside")
            THEN <<WorldNode(push(stackCopy, n.armCol, n.holding), n.armCol, n.holding)>>
            ELSE <<>>
    IN  left \o right \o pickOrDrop

\* WorldNode.neighbours: left, right, then pick or drop.
neighbours(n, objects) ==
    LET stackCopy == n.stacks
        column == At(stackCopy, n.armCol)
        top == column[Len(column)]
        left == IF n.armCol # 0
                THEN <<WorldNode(stackCopy, n.armCol - 1, n.holding)>> ELSE <<>>
        right == IF n.armCol # Len(stackCopy) - 1
                 THEN <<WorldNode(stackCopy, n.armCol + 1, n.holding)>> ELSE <<>>
        pickOrDrop ==
            IF n.holding = null /\ Len(column) > 0
            THEN <<WorldNode(pop(stackCopy, n.armCol), n.armCol, top)>>
            ELSE IF /\ n.holding # null
                    /\ \/ Len(column) = 0
                       \/ obeyLaws(objects[n.holding], objects[top], "ontop")
                       \/ obeyLaws(objects[n.holding], objects[top], "inside")
            THEN <<WorldNode(push(stackCopy, n.armCol, n.holding), n.armCol, null)>>
            ELSE <<>>
    IN  left \o right \o pickOrDrop

\* Strings are sequences of characters; an object identifier of the example
\* worlds is one letter.
DigitChars == <<"0", "1", "2", "3", "4", "5", "6", "7", "8", "9">>

\* String(k) for an integer k
RECURSIVE numberToString(_)
numberToString(k) ==
    IF k < 0 THEN <<"-">> \o numberToString(-k)
    ELSE IF k < 10 THEN <<DigitChars[k + 1]>>
    ELSE numberToString(k \div 10) \o <<DigitChars[(k % 10) + 1]>>

\* The elements parts[i..], each a string, joined with commas
RECURSIVE joinFrom(_, _)
joinFrom(parts, i) ==
    IF i > Len(parts) THEN <<>>
    ELSE IF i = Len(parts) THEN parts[i]
    ELSE parts[i] \o <<",">> \o joinFrom(parts, i + 1)

\* JSON.stringify of an array of identifiers, and of an array of those
stringifyColumn(col) ==
    <<"[">> \o joinFrom([i \in 1..Len(col) |-> <<"\"", col[i], "\"">>], 1) \o <<"]">>

stringifyStacks(stacks) ==
    <<"[">> \o joinFrom([c \in 1..Len(stacks) |-> stringifyColumn(stacks[c])], 1)
            \o <<"]">>

\* A toString without the arm column.
worldToStringNoArm(n) ==
    stringifyStacks(n.stacks) \o (IF n.holding = null THEN <<>> ELSE <<n.holding>>)

\* WorldNode.toString: JSON.stringify(stacks) + armCol + holding ('' for null)
worldToString(n) ==
    stringifyStacks(n.stacks) \o numberToString(n.armCol)
        \o (IF n.holding = null THEN <<>> ELSE <<n.holding>>)

\* WorldNode.compare
compare(a, b) == IF worldToString(a) = worldToString(b) THEN 0 ELSE 1

\* WorldGraph.outgoingEdges
worldOutgoingEdges(n, objects) ==
    LET ns == neighbours(n, objects)
    IN  [i \in 1..Len(ns) |-> [to |-> ns[i], cost |-> 1]]

\* Planner.indexOf2D: <<column, row>>, 0-based
RECURSIVE indexOfFrom(_, _, _, _)
indexOfFrom(arr, item, col, row) ==
    IF col >= Len(arr) THEN <<Infinity, Infinity>>
    ELSE IF row >= Len(At(arr, col)) THEN indexOfFrom(arr, item, col + 1, 0)
    ELSE IF At(At(arr, col), row) = item THEN <<col, row>>
    ELSE indexOfFrom(arr, item, col, row + 1)

indexOf2D(arr, item) ==
    IF item = "floor" THEN <<-1, -1>> ELSE indexOfFrom(arr, item, 0, 0)

\* formula.args[i] (0-based); a missing argument is JavaScript's undefined
arg(formula, i) == IF i < Len(formula.args) THEN At(formula.args, i) ELSE "undefined"

\* The literals of a DNF formula in the order the nested for loops visit them
RECURSIVE flatten(_)
flatten(interpretation) ==
    IF interpretation = <<>> THEN <<>>
    ELSE Head(interpretation) \o flatten(Tail(interpretation))

\* A switch whose ontop and inside know no floor.
relationHoldsNoFloor(formula, p0, p1, isGoal) ==
    CASE formula.relation = "leftof" -> p0[1] < p1[1]
      [] formula.relation = "rightof" -> p0[1] > p1[1]
      [] formula.relation \in {"inside", "ontop"} ->
            (p0[1] = p1[1] /\ p0[2] = p1[2] + 1)
      [] formula.relation = "under" -> p0[1] = p1[1] /\ p0[2] < p1[2]
      [] formula.relation = "beside" -> p0[1] = p1[1] + 1 \/ p0[1] = p1[1] - 1
      [] formula.relation = "above" -> p0[1] = p1[1] /\ p0[2] > p1[2]
      [] OTHER -> isGoal

\* A switch whose beside looks to one side only.
relationHoldsBesideOneSide(formula, p0, p1, isGoal) ==
    CASE formula.relation = "leftof" -> p0[1] < p1[1]
      [] formula.relation = "rightof" -> p0[1] > p1[1]
      [] formula.relation \in {"inside", "ontop"} ->
            \/ (p0[1] = p1[1] /\ p0[2] = p1[2] + 1)
            \/ (arg(formula, 1) = "floor" /\ p0[2] = 0)
      [] formula.relation = "under" -> p0[1] = p1[1] /\ p0[2] < p1[2]
      [] formula.relation = "beside" -> p0[1] = p1[1] + 1
      [] formula.relation = "above" -> p0[1] = p1[1] /\ p0[2] > p1[2]
      [] OTHER -> isGoal

\* The switch of the goal closure (part_000 92-113) for one literal
relationHolds(formula, p0, p1, isGoal) ==
    CASE formula.relation = "leftof" -> p0[1] < p1[1]
      [] formula.relation = "rightof" -> p0[1] > p1[1]
      [] formula.relation \in {"inside", "ontop"} ->
            \/ (p0[1] = p1[1] /\ p0[2] = p1[2] + 1)
            \/ (arg(formula, 1) = "floor" /\ p0[2] = 0)
      [] formula.relation = "under" -> p0[1] = p1[1] /\ p0[2] < p1[2]
      [] formula.relation = "beside" -> p0[1] = p1[1] + 1 \/ p0[1] = p1[1] - 1
      [] formula.relation = "above" -> p0[1] = p1[1] /\ p0[2] > p1[2]
      [] OTHER -> isGoal

\* The goal closure of planInterpretation
RECURSIVE goalLoop(_, _, _, _)
goalLoop(lits, i, n, isGoal) ==
    IF i > Len(lits) THEN isGoal
    ELSE LET formula == lits[i]
         IN  IF isGoal THEN goalLoop(lits, i + 1, n, isGoal)
             ELSE IF formula.relation = "holding"
                  THEN goalLoop(lits, i + 1, n, n.holding = arg(formula, 0))
             ELSE LET p0 == indexOf2D(n.stacks, arg(formula, 0))
                      p1 == indexOf2D(n.stacks, arg(formula, 1))
                  IN  IF ~isFinite(p0[1]) \/ ~isFinite(p1[1]) THEN FALSE
                      ELSE goalLoop(lits, i + 1, n, relationHolds(formula, p0, p1, isGoal))

goal(n, interpretation) == goalLoop(flatten(interpretation), 1, n, FALSE)

\* The estimate the heuristics closure pushes for one literal
literalEstimate(formula, n) ==
    LET pA == indexOf2D(n.stacks, arg(formula, 0))
        pD == indexOf2D(n.stacks, arg(formula, 1))
        colA == pA[1]
        rowA == pA[2]
        colD == pD[1]
        rowD == pD[2]
        hA == IF colA = -1 THEN 0
              ELSE IF ~isFinite(colA) THEN 1
              ELSE IF formula.relation # "under"
                   THEN 4 * (Len(At(n.stacks, colA)) - 1 - rowA) ELSE 0
        hD == IF colD = -1 THEN 0
              ELSE IF ~isFinite(colD) THEN 1
              ELSE IF formula.relation # "above"
                   THEN 4 * (Len(At(n.stacks, colD)) - 1 - rowD) ELSE 0
        hHold == IF formula.relation = "holding" /\ isFinite(colA)
                 THEN Abs(colA - n.armCol) ELSE 0
        distA == IF isFinite(colA) THEN colA ELSE n.armCol
        distB == IF isFinite(colD) THEN colD ELSE n.armCol
        hRel == IF formula.relation \in {"ontop", "inside", "under", "above"}
                THEN Abs(distA - distB) ELSE 0
    IN  hA + hD + hHold + hRel + Min(Abs(distA - n.armCol), Abs(distB - n.armCol))

RECURSIVE minOf(_, _, _)
minOf(arr, i, acc) ==
    IF i > Len(arr) THEN acc ELSE minOf(arr, i + 1, Min(acc, arr[i]))

\* A heuristics closure that does not ask whether n is a goal.
heuristicsNoGoalTest(n, interpretation) ==
    LET lits == flatten(interpretation)
        hArr == [i \in 1..Len(lits) |-> literalEstimate(lits[i], n)]
    IN  minOf(hArr, 1, Infinity)

\* The heuristics closure of planInterpretation
heuristics(n, interpretation) ==
    LET lits == flatten(interpretation)
        hArr == [i \in 1..Len(lits) |->
                    IF goal(n, interpretation) THEN 0 ELSE literalEstimate(lits[i], n)]
    IN  minOf(hArr, 1, Infinity)

\* --------------------------------------------------------- test graphs
\* The goal and heuristic closures a test hands to aStarSearch
goalf(n) == n \in goalArg

h(n) == hArg[n]

\* ------------------------------------------------------ Graph interface
\* The functions aStarSearch is parameterised with, for the graph at hand
outgoingEdges(n) ==
    IF graph.kind = "world" THEN worldOutgoingEdges(n, graph.objects)
    ELSE EdgeListFrom(graph, n, 1)

goalOf(n) == IF graph.kind = "world" THEN goal(n, goalArg) ELSE goalf(n)

hOf(n) == IF graph.kind = "world" THEN heuristics(n, hArg) ELSE h(n)

toString(n) == IF graph.kind = "world" THEN worldToString(n) ELSE n

\* ----------------------------------------------- collections.Dictionary
containsKey(d, k) == k \in DOMAIN d

setValue(d, k, v) == [x \in (DOMAIN d) \cup {k} |-> IF x = k THEN v ELSE d[x]]

getValue(d, k) == d[k]

\* JavaScript number addition with Infinity
Plus(a, b) == IF a >= Infinity \/ b >= Infinity THEN Infinity ELSE a + b

\* --------------------------------------------- collections.PriorityQueue
\* The comparator of the frontier (Graph.ts 297-304) reads fValDict at the
\* moment of the comparison.
fOf(fd, r) == IF containsKey(fd, toString(r.n)) THEN fd[toString(r.n)] ELSE Infinity

\* A dequeue in the order of arrival, whatever the f values.
dequeueIndexFirstIn(q, fd) == CHOOSE i \in 1..Len(q) : i = 1

\* dequeue: the lowest f; among equal f, the one enqueued first.
dequeueIndex(q, fd) ==
    CHOOSE i \in 1..Len(q) :
        /\ \A j \in 1..Len(q) : fOf(fd, q[i]) <= fOf(fd, q[j])
        /\ \A j \in 1..(i - 1) : fOf(fd, q[j]) > fOf(fd, q[i])

removeAt(q, i) == SubSeq(q, 1, i - 1) \o SubSeq(q, i + 1, Len(q))

enqueue(q, r) == Append(q, r)

frontierContains(q, r) == \E i \in 1..Len(q) : toString(q[i].n) = toString(r.n)

\* ------------------------------------------------------------ aStarSearch
\* One pass of the body of `for (let edge of graph.outgoingEdges(current))`.
\* st carries the dictionaries and the frontier; st.ret holds the node the
\* search returns with, and is empty while the loop goes on.
processEdge(st, current, edge, vis) ==
    LET next == [n |-> edge.to, s |-> FALSE]
        k == toString(edge.to)
        costNext == Plus(getValue(st.cost, toString(current.n)), edge.cost)
        fVal == Plus(costNext, hOf(edge.to))
        oldFVal == IF containsKey(st.fval, k) THEN getValue(st.fval, k) ELSE Infinity
    IN  IF k \in vis THEN st
        ELSE IF frontierContains(st.frontier, next) /\ fVal >= oldFVal THEN st
        ELSE LET upd == [st EXCEPT !.parent = setValue(st.parent, k, current),
                                   !.cost = setValue(st.cost, k, costNext),
                                   !.fval = setValue(st.fval, k, fVal)]
             IN  IF goalOf(edge.to)
                 THEN [upd EXCEPT !.ret = <<next>>]
                 ELSE [upd EXCEPT !.frontier = enqueue(upd.frontier, next)]

RECURSIVE expandEdges(_, _, _, _, _)
expandEdges(st, current, edges, i, vis) ==
    IF i > Len(edges) \/ st.ret # <<>> THEN st
    ELSE expandEdges(processEdge(st, current, edges[i], vis), current, edges, i + 1, vis)

\* ------------------------------------------------------- test inputs
HOptions ==
    { [n \in Nodes |-> 0],
      [n \in Nodes |-> NumNodes - n],
      [n \in Nodes |-> 2 * (NumNodes - n)] }

GoalOptions == {{}} \cup {{g} : g \in Nodes}

\* The durations Date.now() - startTime may be read as, in milliseconds:
\* the last reading again, or one just beyond the budget (the clock does
\* not run backwards).
laterReadings == {elapsed, 1000 * timeout + 1}

\* Sequences without repetition over S
InjSeqs(S) ==
    UNION { {q \in [1..k -> S] : \A i, j \in 1..k : i # j => q[i] # q[j]} :
            k \in 0..Cardinality(S) }

lawful(stacks) ==
    \A c \in 1..Len(stacks) : \A i \in 2..Len(stacks[c]) :
        \/ obeyLaws(ObjectDefs[stacks[c][i]], ObjectDefs[stacks[c][i - 1]], "ontop")
        \/ obeyLaws(ObjectDefs[stacks[c][i]], ObjectDefs[stacks[c][i - 1]], "inside")

occurrences(w, o) ==
    Cardinality({<<c, i>> \in (1..NumCols) \X (1..NumObjects) :
                    i <= Len(w.stacks[c]) /\ w.stacks[c][i] = o})
    + (IF w.holding = o THEN 1 ELSE 0)

\* The worlds planning may start from: every object once, in a stack or in
\* the arm, every stack obeying the physical laws.
WorldStates ==
    { w \in [stacks : [1..NumCols -> InjSeqs(Objects)],
             arm : 0..(NumCols - 1),
             holding : Objects \cup {null},
             objects : {ObjectDefs}] :
        /\ \A o \in Objects : occurrences(w, o) = 1
        /\ lawful(w.stacks) }

Lit(rel, args) == [relation |-> rel, args |-> args, polarity |-> TRUE]

\* The goal formulas handed to the planner
Formulas ==
    { <<<<Lit("inside", <<"a", "b">>)>>>>,
      <<<<Lit("holding", <<"a">>)>>>>,
      <<<<Lit("ontop", <<"a", "floor">>)>>>>,
      <<<<Lit("ontop", <<"b", "c">>)>>>>,
      <<<<Lit("ontop", <<"c", "floor">>), Lit("holding", <<"a">>)>>>>,
      <<<<Lit("holding", <<"b">>)>>, <<Lit("inside", <<"a", "b">>)>>>>,
      <<<<Lit("leftof", <<"a", "b">>)>>>>,
      <<<<Lit("rightof", <<"c", "b">>)>>>>,
      <<<<Lit("beside", <<"a", "c">>)>>>>,
      <<<<Lit("above", <<"c", "b">>)>>>>,
      <<<<Lit("under", <<"b", "a">>), Lit("leftof", <<"c", "a">>)>>>>,
      <<<<Lit("ontop", <<"b", "c">>), Lit("holding", <<"a">>)>>>>,
      <<>> }

FirstFormulas ==
    { <<<<Lit("inside", <<"a", "b">>)>>>>,
      <<<<Lit("ontop", <<"b", "c">>)>>>>,
      <<<<Lit("holding", <<"a">>)>>>> }

SecondFormulas ==
    { <<<<Lit("ontop", <<"b", "c">>)>>>>,
      <<<<Lit("holding", <<"c">>)>>>> }

InterpretationLists ==
    {<<[interpretation |-> f]>> : f \in Formulas}
    \cup {<<[interpretation |-> f], [interpretation |-> g]>> :
            f \in FirstFormulas, g \in SecondFormulas}

\* State of aStarSearch after its initialisation (Graph.ts 283-310), for the
\* start node s whose heuristic value is h0.
searchInit(s, h0, key) ==
    [costDict |-> setValue(<<>>, key, 0),
     fValDict |-> setValue(<<>>, key, h0),
     parentDict |-> <<>>,
     frontier |-> <<[n |-> s, s |-> TRUE]>>,
     visited |-> {}]

\* A test run: aStarSearch(g, start, goalf, h, timeout) on an explicit graph.
Init ==
    /\ graph \in [kind : {"test"}, edges : SUBSET CandidateEdges, chordCost : {1, MaxCost}]
    /\ goalArg \in GoalOptions
    /\ hArg \in HOptions
    /\ timeout = TestTimeout
    /\ elapsed = 0
    /\ start = 1
    /\ LET si == searchInit(1, hArg[1], 1)
       IN  /\ costDict = si.costDict
           /\ fValDict = si.fValDict
           /\ parentDict = si.parentDict
           /\ frontier = si.frontier
           /\ visited = si.visited
    /\ pc = "loop"
    /\ goalRef = noRef
    /\ followCur = noRef
    /\ path = <<>>
    /\ result = undefined
    /\ log = <<>>
    /\ currentState = undefined
    /\ interpretations = <<>>
    /\ idx = 0
    /\ plans = <<>>
    /\ errors = <<>>
    /\ planOut = undefined
    /\ thisNode = undefined
    /\ from = undefined
    /\ goalRet = <<>>
    /\ hRet = <<>>
    /\ heap = <<>>
    /\ nodes = <<>>
    /\ lastCall = undefined
    /\ cmd = undefined
    /\ state = undefined
    /\ interpOut = <<>>
    /\ lawArgs = undefined
    /\ lawRet = <<>>
    /\ currentNode = noRef

\* A search that, out of time, hands back the best node of the frontier
\* instead of failing.
TimeoutBreakBestEffort ==
    /\ pc = "loop"
    /\ frontier # <<>>
    /\ \E now \in laterReadings : now > 1000 * timeout /\ elapsed' = now
    /\ log' = Append(log, "Timeout!")
    /\ result' = [path |-> <<frontier[dequeueIndex(frontier, fValDict)]>>,
                  cost |-> fOf(fValDict, frontier[dequeueIndex(frontier, fValDict)])]
    /\ pc' = "returned"
    /\ UNCHANGED <<graph, goalArg, hArg, timeout, start, costDict, fValDict,
                   parentDict, frontier, visited, goalRef, followCur, path>>
    /\ UNCHANGED planVars
    /\ UNCHANGED worldVars
    /\ UNCHANGED storeVars
    /\ UNCHANGED interpVars
    /\ UNCHANGED loopVars

\* while (!frontier.isEmpty()) with the time budget exceeded: log and break,
\* then the failure exit after the loop.
TimeoutBreak ==
    /\ pc = "loop"
    /\ frontier # <<>>
    /\ \E now \in laterReadings : now > 1000 * timeout /\ elapsed' = now
    /\ log' = log \o <<"Timeout!", "Failure! No path found">>
    /\ result' = undefined
    /\ pc' = "returned"
    /\ UNCHANGED <<graph, goalArg, hArg, timeout, start, costDict, fValDict,
                   parentDict, frontier, visited, goalRef, followCur, path>>
    /\ UNCHANGED planVars
    /\ UNCHANGED worldVars
    /\ UNCHANGED storeVars
    /\ UNCHANGED interpVars
    /\ UNCHANGED loopVars

\* One iteration of the while loop within the time budget: dequeue, the
\* whole for loop over the outgoing edges, then either the call of
\* followParent or visited.add(current).
Expand ==
    /\ pc = "loop"
    /\ frontier # <<>>
    /\ \E now \in laterReadings : ~(now > 1000 * timeout) /\ elapsed' = now
    /\ currentNode' = frontier[dequeueIndex(frontier, fValDict)]
    /\ LET i == dequeueIndex(frontier, fValDict)
           current == frontier[i]
           st0 == [cost |-> costDict, fval |-> fValDict, parent |-> parentDict,
                   frontier |-> removeAt(frontier, i), ret |-> <<>>]
           st == expandEdges(st0, current, outgoingEdges(current.n), 1, visited)
       IN  /\ costDict' = st.cost
           /\ fValDict' = st.fval
           /\ parentDict' = st.parent
           /\ frontier' = st.frontier
           /\ IF st.ret # <<>>
              THEN /\ goalRef' = st.ret[1]
                   /\ followCur' = st.ret[1]
                   /\ path' = st.ret
                   /\ pc' = "follow"
                   /\ visited' = visited
              ELSE /\ visited' = visited \cup {toString(current.n)}
                   /\ UNCHANGED <<goalRef, followCur, path, pc>>
    /\ UNCHANGED <<graph, goalArg, hArg, timeout, start, result, log>>
    /\ UNCHANGED planVars
    /\ UNCHANGED worldVars
    /\ UNCHANGED storeVars
    /\ UNCHANGED interpVars

\* The frontier is empty: the failure exit after the loop.
Exhausted ==
    /\ pc = "loop"
    /\ frontier = <<>>
    /\ log' = Append(log, "Failure! No path found")
    /\ result' = undefined
    /\ pc' = "returned"
    /\ UNCHANGED <<graph, goalArg, hArg, timeout, elapsed, start, costDict, fValDict,
                   parentDict, frontier, visited, goalRef, followCur, path>>
    /\ UNCHANGED planVars
    /\ UNCHANGED worldVars
    /\ UNCHANGED storeVars
    /\ UNCHANGED interpVars
    /\ UNCHANGED loopVars

\* ----------------------------------------------------------- followParent
\* path.unshift; a path that outgrows MaxPath keeps its MaxPath newest nodes.
\* No run that leaves the loop reaches MaxPath nodes; a run that does reach it
\* is one where `current != start` stays true and the array grows for ever.
unshift(p, r) == IF Len(p) < MaxPath THEN <<r>> \o p ELSE <<r>> \o SubSeq(p, 1, MaxPath - 1)

\* One iteration of `while (current != start)`.
FollowParentStep ==
    /\ pc = "follow"
    /\ ~followCur.s
    /\ followCur' = getValue(parentDict, toString(followCur.n))
    /\ path' = unshift(path, followCur')
    /\ UNCHANGED <<graph, goalArg, hArg, timeout, elapsed, start, costDict, fValDict,
                   parentDict, frontier, visited, pc, goalRef, result, log>>
    /\ UNCHANGED planVars
    /\ UNCHANGED worldVars
    /\ UNCHANGED storeVars
    /\ UNCHANGED interpVars
    /\ UNCHANGED loopVars

\* current == start: followParent returns, aStarSearch returns the result.
FollowParentReturn ==
    /\ pc = "follow"
    /\ followCur.s
    /\ result' = [path |-> path, cost |-> getValue(costDict, toString(goalRef.n))]
    /\ pc' = "returned"
    /\ UNCHANGED <<graph, goalArg, hArg, timeout, elapsed, start, costDict, fValDict,
                   parentDict, frontier, visited, goalRef, followCur, path, log>>
    /\ UNCHANGED planVars
    /\ UNCHANGED worldVars
    /\ UNCHANGED storeVars
    /\ UNCHANGED interpVars
    /\ UNCHANGED loopVars

Next ==
    \/ TimeoutBreak
    \/ Expand
    \/ Exhausted
    \/ FollowParentStep
    \/ FollowParentReturn

vars == <<searchVars, planVars, worldVars, storeVars, interpVars, loopVars>>

Spec == Init /\ [][Next]_vars

FairSpec == Spec /\ WF_vars(Next)

\* ------------------------------------------------------------ Planner.plan
\* plan(interpretations, currentState) before its forEach.
PlanInit ==
    /\ graph = [kind |-> "world", objects |-> ObjectDefs]
    /\ currentState \in WorldStates
    /\ interpretations \in InterpretationLists
    /\ idx = 1
    /\ plans = <<>>
    /\ errors = <<>>
    /\ planOut = undefined
    /\ thisNode = undefined
    /\ from = undefined
    /\ goalRet = <<>>
    /\ hRet = <<>>
    /\ heap = <<>>
    /\ nodes = <<>>
    /\ lastCall = undefined
    /\ cmd = undefined
    /\ state = undefined
    /\ interpOut = <<>>
    /\ lawArgs = undefined
    /\ lawRet = <<>>
    /\ currentNode = noRef
    /\ pc = "plan"
    /\ goalArg = <<>>
    /\ hArg = <<>>
    /\ timeout = PlannerTimeout
    /\ elapsed = 0
    /\ start = WorldNode(currentState.stacks, currentState.arm, currentState.holding)
    /\ costDict = <<>>
    /\ fValDict = <<>>
    /\ parentDict = <<>>
    /\ frontier = <<>>
    /\ visited = {}
    /\ goalRef = noRef
    /\ followCur = noRef
    /\ path = <<>>
    /\ result = undefined
    /\ log = <<>>

\* A planInterpretation that plans from the state the plan found before it
\* ends in.
PlanInterpretationFromLastState ==
    /\ pc = "plan"
    /\ idx <= Len(interpretations)
    /\ LET interpretation == interpretations[idx].interpretation
           startState == IF result # undefined
                         THEN result.path[Len(result.path)].n
                         ELSE WorldNode(currentState.stacks, currentState.arm,
                                        currentState.holding)
           si == searchInit(startState, heuristics(startState, interpretation),
                            worldToString(startState))
       IN  /\ goalArg' = interpretation
           /\ hArg' = interpretation
           /\ start' = startState
           /\ costDict' = si.costDict
           /\ fValDict' = si.fValDict
           /\ parentDict' = si.parentDict
           /\ frontier' = si.frontier
           /\ visited' = si.visited
    /\ timeout' = PlannerTimeout
    /\ elapsed' = 0
    /\ pc' = "loop"
    /\ goalRef' = noRef
    /\ followCur' = noRef
    /\ path' = <<>>
    /\ result' = undefined
    /\ UNCHANGED <<graph, log, planVars>>
    /\ UNCHANGED worldVars
    /\ UNCHANGED storeVars
    /\ UNCHANGED interpVars
    /\ currentNode' = noRef

\* planInterpretation up to the call of aStarSearch, and the initialisation
\* of the search, for the interpretation the forEach is at.
PlanInterpretation ==
    /\ pc = "plan"
    /\ idx <= Len(interpretations)
    /\ LET interpretation == interpretations[idx].interpretation
           startState == WorldNode(currentState.stacks, currentState.arm,
                                   currentState.holding)
           si == searchInit(startState, heuristics(startState, interpretation),
                            worldToString(startState))
       IN  /\ goalArg' = interpretation
           /\ hArg' = interpretation
           /\ start' = startState
           /\ costDict' = si.costDict
           /\ fValDict' = si.fValDict
           /\ parentDict' = si.parentDict
           /\ frontier' = si.frontier
           /\ visited' = si.visited
    /\ timeout' = PlannerTimeout
    /\ elapsed' = 0
    /\ pc' = "loop"
    /\ goalRef' = noRef
    /\ followCur' = noRef
    /\ path' = <<>>
    /\ result' = undefined
    /\ UNCHANGED <<graph, log, planVars>>
    /\ UNCHANGED worldVars
    /\ UNCHANGED storeVars
    /\ UNCHANGED interpVars
    /\ currentNode' = noRef

\* A token that reads a move to a higher column as a move left.
tokenLeftForRight(prevNode, node) ==
    IF prevNode.armCol < node.armCol THEN "l"
    ELSE IF prevNode.armCol > node.armCol THEN "r"
    ELSE IF prevNode.holding = null THEN "p"
    ELSE "d"

\* The token planInterpretation pushes for one node of the path
token(prevNode, node) ==
    IF prevNode.armCol < node.armCol THEN "r"
    ELSE IF prevNode.armCol > node.armCol THEN "l"
    ELSE IF prevNode.holding = null THEN "p"
    ELSE "d"

\* A renderer whose prevNode stays the first node of the path.
renderFromFirstNode(p) == [i \in 1..(Len(p) - 1) |-> token(p[1].n, p[i + 1].n)]

\* The plan built from searchResult.path (part_000 204-219)
render(p) == [i \in 1..(Len(p) - 1) |-> token(p[i].n, p[i + 1].n)]

\* aStarSearch returned a result: the plan is rendered, plan() completes an
\* empty plan with its notice and pushes the result.
RenderPlan ==
    /\ pc = "returned"
    /\ graph.kind = "world"
    /\ result # undefined
    /\ LET plan == render(result.path)
           final == IF Len(plan) = 0 THEN <<"That is already true!">> ELSE plan
       IN  plans' = Append(plans, [interpretation |-> interpretations[idx].interpretation,
                                   plan |-> final])
    /\ idx' = idx + 1
    /\ pc' = "plan"
    /\ UNCHANGED <<graph, goalArg, hArg, timeout, elapsed, start, costDict, fValDict,
                   parentDict, frontier, visited, goalRef, followCur, path,
                   result, log, currentState, interpretations, errors, planOut>>
    /\ UNCHANGED worldVars
    /\ UNCHANGED storeVars
    /\ UNCHANGED interpVars
    /\ UNCHANGED loopVars

\* aStarSearch returned undefined: searchResult.path throws a TypeError,
\* which plan() catches and records. Every throw creates an Error object
\* of its own: `at` tells the objects apart by the interpretation that threw.
SearchResultThrows ==
    /\ pc = "returned"
    /\ graph.kind = "world"
    /\ result = undefined
    /\ errors' = Append(errors, [name |-> "TypeError", at |-> idx])
    /\ idx' = idx + 1
    /\ pc' = "plan"
    /\ UNCHANGED <<graph, goalArg, hArg, timeout, elapsed, start, costDict, fValDict,
                   parentDict, frontier, visited, goalRef, followCur, path,
                   result, log, currentState, interpretations, plans, planOut>>
    /\ UNCHANGED worldVars
    /\ UNCHANGED storeVars
    /\ UNCHANGED interpVars
    /\ UNCHANGED loopVars

\* A plan() that throws as soon as one interpretation has failed.
PlanReturnThrowsOnAnyError ==
    /\ pc = "plan"
    /\ idx > Len(interpretations)
    /\ planOut' = IF Len(errors) = 0
                  THEN [returned |-> plans]
                  ELSE [thrown |-> errors[1]]
    /\ pc' = "done"
    /\ UNCHANGED <<graph, goalArg, hArg, timeout, elapsed, start, costDict, fValDict,
                   parentDict, frontier, visited, goalRef, followCur, path,
                   result, log, currentState, interpretations, idx, plans, errors>>
    /\ UNCHANGED worldVars
    /\ UNCHANGED storeVars
    /\ UNCHANGED interpVars
    /\ UNCHANGED loopVars

\* After the forEach: return the plans, or throw the first error.
PlanReturn ==
    /\ pc = "plan"
    /\ idx > Len(interpretations)
    /\ planOut' = IF Len(plans) # 0
                  THEN [returned |-> plans]
                  ELSE [thrown |-> errors[1]]
    /\ pc' = "done"
    /\ UNCHANGED <<graph, goalArg, hArg, timeout, elapsed, start, costDict, fValDict,
                   parentDict, frontier, visited, goalRef, followCur, path,
                   result, log, currentState, interpretations, idx, plans, errors>>
    /\ UNCHANGED worldVars
    /\ UNCHANGED storeVars
    /\ UNCHANGED interpVars
    /\ UNCHANGED loopVars

PlanNext ==
    \/ PlanInterpretation
    \/ TimeoutBreak
    \/ Expand
    \/ Exhausted
    \/ FollowParentStep
    \/ FollowParentReturn
    \/ RenderPlan
    \/ SearchResultThrows
    \/ PlanReturn

PlanSpec == PlanInit /\ [][PlanNext]_vars

\* ------------------------------------------------- plan() on small worlds
\* The world of the worked example: a ball "a" and a box "b" side by side.
exampleWorld ==
    [stacks |-> <<<<"a">>, <<"b">>>>, arm |-> 0, holding |-> null,
     objects |-> ObjectDefs]

insideAB == <<<<Lit("inside", <<"a", "b">>)>>>>

\* The worlds of the two objects and the two columns of the example.
TwoObjectWorlds ==
    LET objs == {"a", "b"}
        cols == 1..Len(exampleWorld.stacks)
        count(w, o) ==
            Cardinality({<<c, i>> \in cols \X (1..Cardinality(objs)) :
                            i <= Len(w.stacks[c]) /\ w.stacks[c][i] = o})
            + (IF w.holding = o THEN 1 ELSE 0)
    IN  { w \in [stacks : [cols -> InjSeqs(objs)],
                 arm : 0..(Len(exampleWorld.stacks) - 1),
                 holding : objs \cup {null},
                 objects : {ObjectDefs}] :
            /\ \A o \in objs : count(w, o) = 1
            /\ lawful(w.stacks) }

\* plan(interpretations, currentState) on one of these worlds.
ExampleInit ==
    /\ graph = [kind |-> "world", objects |-> ObjectDefs]
    /\ currentState \in TwoObjectWorlds
    /\ interpretations \in InterpretationLists
    /\ idx = 1
    /\ plans = <<>>
    /\ errors = <<>>
    /\ planOut = undefined
    /\ thisNode = undefined
    /\ from = undefined
    /\ goalRet = <<>>
    /\ hRet = <<>>
    /\ heap = <<>>
    /\ nodes = <<>>
    /\ lastCall = undefined
    /\ cmd = undefined
    /\ state = undefined
    /\ interpOut = <<>>
    /\ lawArgs = undefined
    /\ lawRet = <<>>
    /\ currentNode = noRef
    /\ pc = "plan"
    /\ goalArg = <<>>
    /\ hArg = <<>>
    /\ timeout = PlannerTimeout
    /\ elapsed = 0
    /\ start = WorldNode(currentState.stacks, currentState.arm, currentState.holding)
    /\ costDict = <<>>
    /\ fValDict = <<>>
    /\ parentDict = <<>>
    /\ frontier = <<>>
    /\ visited = {}
    /\ goalRef = noRef
    /\ followCur = noRef
    /\ path = <<>>
    /\ result = undefined
    /\ log = <<>>

ExampleSpec == ExampleInit /\ [][PlanNext]_vars

\* ------------------------------------------------- the goal closure alone
\* Goal formulas the closure is called with, beyond those that are planned
\* for; "e" names an object that is in no world.
SingleLiterals ==
    { <<<<Lit(rel, <<x, y>>)>>>> :
        rel \in {"leftof", "rightof", "inside", "ontop", "under", "beside", "above"},
        x \in Objects \cup {"floor"}, y \in Objects \cup {"floor"} }
    \cup { <<<<Lit("holding", <<x>>)>>>> : x \in Objects }

GoalFormulas ==
    Formulas \cup SingleLiterals \cup
    { <<<<Lit("inside", <<"a", "b">>)>>, <<Lit("holding", <<"b">>)>>>>,
      <<<<Lit("leftof", <<"e", "a">>)>>, <<Lit("ontop", <<"c", "floor">>)>>>>,
      <<<<Lit("ontop", <<"c", "floor">>)>>, <<Lit("leftof", <<"e", "a">>)>>>>,
      <<<<Lit("ontop", <<"a", "floor">>), Lit("ontop", <<"c", "floor">>)>>>>,
      <<<<Lit("beside", <<"a", "b">>), Lit("rightof", <<"c", "a">>)>>>> }

\* goal(n) about to be called: n is any world state, the closure holds any
\* of the formulas.
GoalInit ==
    /\ graph = [kind |-> "world", objects |-> ObjectDefs]
    /\ thisNode \in {WorldNode(w.stacks, w.arm, w.holding) : w \in WorldStates}
    /\ goalArg \in GoalFormulas
    /\ goalRet = <<>>
    /\ hRet = <<>>
    /\ heap = <<>>
    /\ nodes = <<>>
    /\ lastCall = undefined
    /\ cmd = undefined
    /\ state = undefined
    /\ interpOut = <<>>
    /\ lawArgs = undefined
    /\ lawRet = <<>>
    /\ currentNode = noRef
    /\ from = undefined
    /\ hArg = <<>>
    /\ timeout = PlannerTimeout
    /\ elapsed = 0
    /\ start = thisNode
    /\ costDict = <<>>
    /\ fValDict = <<>>
    /\ parentDict = <<>>
    /\ frontier = <<>>
    /\ visited = {}
    /\ pc = "goal"
    /\ goalRef = noRef
    /\ followCur = noRef
    /\ path = <<>>
    /\ result = undefined
    /\ log = <<>>
    /\ currentState = undefined
    /\ interpretations = <<>>
    /\ idx = 0
    /\ plans = <<>>
    /\ errors = <<>>
    /\ planOut = undefined

\* The call goal(n) and its return value.
GoalCall ==
    /\ pc = "goal"
    /\ goalRet' = <<goal(thisNode, goalArg)>>
    /\ pc' = "returned"
    /\ UNCHANGED <<graph, goalArg, hArg, timeout, elapsed, start, costDict, fValDict,
                   parentDict, frontier, visited, goalRef, followCur, path,
                   result, log, thisNode, from, hRet>>
    /\ UNCHANGED planVars
    /\ UNCHANGED storeVars
    /\ UNCHANGED interpVars
    /\ UNCHANGED loopVars

\* The call heuristics(n) and its return value.
HeuristicsCall ==
    /\ pc \in {"goal", "returned"}
    /\ hRet = <<>>
    /\ hRet' = <<heuristics(thisNode, goalArg)>>
    /\ UNCHANGED <<thisNode, from, goalRet>>
    /\ UNCHANGED searchVars
    /\ UNCHANGED planVars
    /\ UNCHANGED storeVars
    /\ UNCHANGED interpVars
    /\ UNCHANGED loopVars

GoalNext == GoalCall \/ HeuristicsCall

GoalSpec == GoalInit /\ [][GoalNext]_vars

\* ------------------------------------------------------ neighbours() alone
\* The forms and sizes the objects of a world are drawn from.
LawShapes ==
    << [form |-> "ball",    size |-> "small"],
       [form |-> "box",     size |-> "small"],
       [form |-> "box",     size |-> "large"],
       [form |-> "pyramid", size |-> "small"],
       [form |-> "brick",   size |-> "small"],
       [form |-> "plank",   size |-> "large"] >>

\* state.objects: a definition for every identifier; identifiers are
\* interchangeable, so the shapes are assigned in non-decreasing order.
LawObjectDefs ==
    { [o \in Objects |->
          LawShapes[f[CHOOSE j \in 1..NumObjects : Catalogue[j].id = o]]] :
        f \in {g \in [1..NumObjects -> 1..Len(LawShapes)] :
                  \A i \in 1..(NumObjects - 1) : g[i] <= g[i + 1]} }

\* Every way of putting each object once in a stack or in the arm.
Placements ==
    { w \in [stacks : [1..NumCols -> InjSeqs(Objects)],
             arm : 0..(NumCols - 1),
             holding : Objects \cup {null}] :
        \A o \in Objects : occurrences(w, o) = 1 }

\* The physical laws for an object A placed directly on an object B.
lawsAllow(A, B) ==
    /\ ~(A.size = "large" /\ B.size = "small")
    /\ B.form # "ball"
    /\ (A.form = "ball" => B.form = "box")
    /\ ~(B.form = "box" /\ A.form \in {"pyramid", "plank", "box"} /\ A.size = B.size)
    /\ ~(/\ A.form = "box" /\ A.size = "small" /\ B.size = "small"
         /\ B.form \in {"brick", "pyramid", "box"})
    /\ ~(A.form = "box" /\ A.size = "large" /\ B.form = "box" /\ B.size = "large")

\* Every object of every stack rests on the floor or on an object the
\* physical laws allow it to rest on.
obeysLaws(stacks, objects) ==
    \A c \in 1..Len(stacks) : \A i \in 2..Len(stacks[c]) :
        lawsAllow(objects[stacks[c][i]], objects[stacks[c][i - 1]])

\* A world that obeys the physical laws, before any call of neighbours().
WorldInit ==
    /\ graph \in [kind : {"world"}, objects : LawObjectDefs]
    /\ thisNode \in {WorldNode(w.stacks, w.arm, w.holding) : w \in Placements}
    /\ obeysLaws(thisNode.stacks, graph.objects)
    /\ from = undefined
    /\ goalRet = <<>>
    /\ hRet = <<>>
    /\ heap = <<>>
    /\ nodes = <<>>
    /\ lastCall = undefined
    /\ cmd = undefined
    /\ state = undefined
    /\ interpOut = <<>>
    /\ lawArgs = undefined
    /\ lawRet = <<>>
    /\ currentNode = noRef
    /\ goalArg = <<>>
    /\ hArg = <<>>
    /\ timeout = PlannerTimeout
    /\ elapsed = 0
    /\ start = thisNode
    /\ costDict = <<>>
    /\ fValDict = <<>>
    /\ parentDict = <<>>
    /\ frontier = <<>>
    /\ visited = {}
    /\ pc = "neighbours"
    /\ goalRef = noRef
    /\ followCur = noRef
    /\ path = <<>>
    /\ result = undefined
    /\ log = <<>>
    /\ currentState = undefined
    /\ interpretations = <<>>
    /\ idx = 0
    /\ plans = <<>>
    /\ errors = <<>>
    /\ planOut = undefined

\* node.neighbours() is called and one of the nodes it returns is taken up
\* (WorldGraph.outgoingEdges: from the node, to the neighbour).
Neighbour ==
    /\ pc = "neighbours"
    /\ \E i \in 1..Len(neighbours(thisNode, graph.objects)) :
          thisNode' = neighbours(thisNode, graph.objects)[i]
    /\ from' = thisNode
    /\ UNCHANGED <<graph, goalArg, hArg, timeout, elapsed, start, costDict, fValDict,
                   parentDict, frontier, visited, pc, goalRef, followCur, path,
                   result, log, goalRet, hRet>>
    /\ UNCHANGED planVars
    /\ UNCHANGED storeVars
    /\ UNCHANGED interpVars
    /\ UNCHANGED loopVars

WorldNext == Neighbour

WorldSpec == WorldInit /\ [][WorldNext]_vars

\* --------------------------------------- WorldNode objects and their arrays
\* Nodes created in one run
MaxNodes == 5

\* A constructor that keeps the array it is handed (public stacks).
newWorldNodeKeepsArray(st, stacks, armCol, holding) ==
    [heap |-> st.heap,
     nodes |-> Append(st.nodes, [stacks |-> stacks, armCol |-> armCol,
                                 holding |-> holding])]

\* new WorldNode(stacks, armCol, holding, objects), stacks being the
\* address of an array: this.stacks = JSON.parse(JSON.stringify(stacks))
\* is a new array with the contents the argument has at that moment.
newWorldNode(st, stacks, armCol, holding) ==
    [heap |-> Append(st.heap, st.heap[stacks]),
     nodes |-> Append(st.nodes, [stacks |-> Len(st.heap) + 1, armCol |-> armCol,
                                 holding |-> holding])]

\* this.neighbours() on arrays: stackCopy is one new array, which pop and
\* push change in place after the move nodes have been constructed from it.
\* Gives the arrays after the call and the nodes returned.
neighboursStored(hp, this, objects) ==
    LET h0 == Append(hp, hp[this.stacks])
        stackCopy == Len(h0)
        s0 == [heap |-> h0, nodes |-> <<>>]
        s1 == IF this.armCol # 0
              THEN newWorldNode(s0, stackCopy, this.armCol - 1, this.holding)
              ELSE s0
        s2 == IF this.armCol # Len(s1.heap[stackCopy]) - 1
              THEN newWorldNode(s1, stackCopy, this.armCol + 1, this.holding)
              ELSE s1
        column == At(s2.heap[stackCopy], this.armCol)
        top == column[Len(column)]
    IN  IF this.holding = null /\ Len(column) > 0
        THEN newWorldNode([s2 EXCEPT !.heap[stackCopy] = pop(@, this.armCol)],
                          stackCopy, this.armCol, top)
        ELSE IF /\ this.holding # null
                /\ \/ Len(column) = 0
                   \/ obeyLaws(objects[this.holding], objects[top], "ontop")
                   \/ obeyLaws(objects[this.holding], objects[top], "inside")
        THEN newWorldNode([s2 EXCEPT !.heap[stackCopy] =
                                        push(@, this.armCol, this.holding)],
                          stackCopy, this.armCol, null)
        ELSE s2

\* planInterpretation has built startState from the caller's state: the
\* caller's stacks array is at address 1, the start node's copy at 2.
StoreInit ==
    /\ graph = [kind |-> "world", objects |-> ObjectDefs]
    /\ currentState \in WorldStates
    /\ LET st == newWorldNode([heap |-> <<currentState.stacks>>, nodes |-> <<>>],
                              1, currentState.arm, currentState.holding)
       IN  heap = st.heap /\ nodes = st.nodes
    /\ lastCall = undefined
    /\ cmd = undefined
    /\ state = undefined
    /\ interpOut = <<>>
    /\ lawArgs = undefined
    /\ lawRet = <<>>
    /\ currentNode = noRef
    /\ thisNode = undefined
    /\ from = undefined
    /\ goalRet = <<>>
    /\ hRet = <<>>
    /\ goalArg = <<>>
    /\ hArg = <<>>
    /\ timeout = PlannerTimeout
    /\ elapsed = 0
    /\ start = WorldNode(currentState.stacks, currentState.arm, currentState.holding)
    /\ costDict = <<>>
    /\ fValDict = <<>>
    /\ parentDict = <<>>
    /\ frontier = <<>>
    /\ visited = {}
    /\ pc = "store"
    /\ goalRef = noRef
    /\ followCur = noRef
    /\ path = <<>>
    /\ result = undefined
    /\ log = <<>>
    /\ interpretations = <<>>
    /\ idx = 0
    /\ plans = <<>>
    /\ errors = <<>>
    /\ planOut = undefined

\* neighbours() is called on any node created so far.
CallNeighbours ==
    /\ pc = "store"
    /\ Len(nodes) < MaxNodes
    /\ \E k \in 1..Len(nodes) :
          LET st == neighboursStored(heap, nodes[k], graph.objects)
          IN  /\ heap' = st.heap
              /\ nodes' = nodes \o st.nodes
              /\ lastCall' = [receiver |-> k,
                              returned |-> [i \in 1..Len(st.nodes) |-> Len(nodes) + i]]
    /\ UNCHANGED searchVars
    /\ UNCHANGED planVars
    /\ UNCHANGED worldVars
    /\ UNCHANGED interpVars
    /\ UNCHANGED loopVars

StoreNext == CallNeighbours

StoreSpec == StoreInit /\ [][StoreNext]_vars

\* ---------------------------------------------------------- obeyLaws alone
LawForms == {"ball", "box", "pyramid", "brick", "plank", "table"}

LawSizes == {"small", "large"}

RelationNames == {"ontop", "inside", "leftof", "rightof", "beside", "under", "above"}

\* The floor as interpretCommand builds it (part_001 344): its column is the
\* number of empty columns; its size and colour are the text "null", which
\* is not the value null.
nullText == "'null'"

floorObject(emptyColumns) ==
    [key |-> "floor", form |-> "floor", size |-> nullText, color |-> nullText,
     column |-> emptyColumns, row |-> -1]

\* obeyLaws(mainObject, relativeObject, relation) about to be called on any
\* pair of object definitions.
LawInit ==
    /\ lawArgs \in [mainObject : [form : LawForms, size : LawSizes],
                     relativeObject : [form : LawForms, size : LawSizes]
                                      \cup {floorObject(k) : k \in 0..NumCols},
                     relation : RelationNames]
    /\ lawRet = <<>>
    /\ currentNode = noRef
    /\ cmd = undefined
    /\ state = undefined
    /\ interpOut = <<>>
    /\ graph = [kind |-> "world", objects |-> ObjectDefs]
    /\ thisNode = undefined
    /\ from = undefined
    /\ goalRet = <<>>
    /\ hRet = <<>>
    /\ heap = <<>>
    /\ nodes = <<>>
    /\ lastCall = undefined
    /\ goalArg = <<>>
    /\ hArg = <<>>
    /\ timeout = PlannerTimeout
    /\ elapsed = 0
    /\ start = undefined
    /\ costDict = <<>>
    /\ fValDict = <<>>
    /\ parentDict = <<>>
    /\ frontier = <<>>
    /\ visited = {}
    /\ pc = "laws"
    /\ goalRef = noRef
    /\ followCur = noRef
    /\ path = <<>>
    /\ result = undefined
    /\ log = <<>>
    /\ currentState = undefined
    /\ interpretations = <<>>
    /\ idx = 0
    /\ plans = <<>>
    /\ errors = <<>>
    /\ planOut = undefined

\* The call of obeyLaws and its return value.
ObeyLawsCall ==
    /\ pc = "laws"
    /\ lawRet = <<>>
    /\ lawRet' = <<obeyLaws(lawArgs.mainObject, lawArgs.relativeObject,
                            lawArgs.relation)>>
    /\ UNCHANGED <<cmd, state, interpOut, lawArgs>>
    /\ UNCHANGED searchVars
    /\ UNCHANGED planVars
    /\ UNCHANGED worldVars
    /\ UNCHANGED storeVars
    /\ UNCHANGED loopVars

LawNext == ObeyLawsCall

LawSpec == LawInit /\ [][LawNext]_vars

\* -------------------------------------------------------- interpretCommand
\* new WorldObject(obj, column, row, key), its definition's fields inlined
WorldObject(obj, column, row, key) ==
    [key |-> key, form |-> obj.form, size |-> obj.size, color |-> obj.color,
     column |-> column, row |-> row]

\* The columns before column i (0-based) that are empty
emptyBefore(stacks, i) == Cardinality({c \in 1..i : Len(stacks[c]) = 0})

\* worldObjs (part_001 331-344) as the sequence of its values in the order
\* they were set: the stacks column by column, bottom to top, then the floor.
RECURSIVE worldObjsFrom(_, _, _)
worldObjsFrom(st, col, row) ==
    IF col >= Len(st.stacks)
    THEN <<floorObject(emptyBefore(st.stacks, Len(st.stacks)))>>
    ELSE IF row >= Len(At(st.stacks, col)) THEN worldObjsFrom(st, col + 1, 0)
    ELSE <<WorldObject(st.objects[At(At(st.stacks, col), row)], col, row,
                       At(At(st.stacks, col), row))>>
         \o worldObjsFrom(st, col, row + 1)

worldObjsOf(st) == worldObjsFrom(st, 0, 0)

\* worldObjects.getValue(key)
objectOf(worldObjects, key) ==
    worldObjects[CHOOSE i \in 1..Len(worldObjects) : worldObjects[i].key = key]

strComp(a, b) == a = null \/ b = null \/ a = b

obeyRelation(mainObject, relativeObject, relation) ==
    IF relativeObject.form = "floor"
    THEN ~(relation # "ontop" \/ mainObject.row # 0)
    ELSE CASE relation = "leftof" -> mainObject.column < relativeObject.column
           [] relation = "rightof" -> mainObject.column > relativeObject.column
           [] relation \in {"inside", "ontop"} ->
                /\ mainObject.column = relativeObject.column
                /\ mainObject.row = relativeObject.row + 1
           [] relation = "under" ->
                /\ mainObject.column = relativeObject.column
                /\ mainObject.row < relativeObject.row
           [] relation = "beside" -> Abs(mainObject.column - relativeObject.column) = 1
           [] relation = "above" ->
                /\ mainObject.column = relativeObject.column
                /\ mainObject.row > relativeObject.row
           [] OTHER -> TRUE

\* The keys of the world objects an entity describes, in worldObjs order.
RECURSIVE findMatchingObjects(_, _, _)
findMatchingObjects(entity, worldObjects, action) ==
    LET hasRelations == "location" \in DOMAIN entity.object
        entityObj == IF hasRelations THEN entity.object.object ELSE entity.object
        describes(worldObj) ==
            /\ ~(action /\ worldObj.key = "floor")
            /\ (entityObj.form = "anyform" \/ strComp(entityObj.form, worldObj.form))
            /\ strComp(entityObj.color, worldObj.color)
            /\ strComp(entityObj.size, worldObj.size)
        isMatch(worldObj) ==
            /\ describes(worldObj)
            /\ hasRelations =>
                  LET relativeObjs == findMatchingObjects(entity.object.location.entity,
                                                          worldObjects, FALSE)
                  IN  \E i \in 1..Len(relativeObjs) :
                        obeyRelation(worldObj, objectOf(worldObjects, relativeObjs[i]),
                                     entity.object.location.relation)
        matching == SelectSeq(worldObjects, isMatch)
    IN  IF entityObj.form = "floor" THEN <<"floor">>
        ELSE [i \in 1..Len(matching) |-> matching[i].key]

\* The conjunctions pushed by the nested forEach of the move case
RECURSIVE moveLiterals(_, _, _, _, _)
moveLiterals(actionObjects, targetObjects, worldObjects, relation, i) ==
    IF i > Len(actionObjects) THEN <<>>
    ELSE LET aObj == actionObjects[i]
             allowed(tObj) ==
                /\ aObj # tObj
                /\ obeyLaws(objectOf(worldObjects, aObj), objectOf(worldObjects, tObj),
                            relation)
             ts == SelectSeq(targetObjects, allowed)
         IN  [j \in 1..Len(ts) |-> <<Lit(relation, <<aObj, ts[j]>>)>>]
             \o moveLiterals(actionObjects, targetObjects, worldObjects, relation, i + 1)

\* interpretCommand(cmd, state): what it returns, or what it throws.
interpretCommand(command, st) ==
    LET worldObjs == worldObjsOf(st)
    IN  IF command.command = "take"
        THEN LET actionObjects == findMatchingObjects(command.entity, worldObjs, TRUE)
             IN  [returned |-> [i \in 1..Len(actionObjects) |->
                                  <<Lit("holding", <<actionObjects[i]>>)>>]]
        ELSE IF command.command = "put"
        THEN IF st.holding = null THEN [thrown |-> "Arm is holding nothing"]
             ELSE LET holding == WorldObject(st.objects[st.holding], -1, -1, st.holding)
                      targetObjects == findMatchingObjects(command.location.entity,
                                                           worldObjs, FALSE)
                      allowed(tObj) ==
                        /\ st.holding # tObj
                        /\ obeyLaws(holding, objectOf(worldObjs, tObj),
                                    command.location.relation)
                      ts == SelectSeq(targetObjects, allowed)
                  IN  IF Len(ts) = 0 THEN [thrown |-> "No interpetation!"]
                      ELSE [returned |->
                              [j \in 1..Len(ts) |->
                                  <<Lit(command.location.relation, <<st.holding, ts[j]>>)>>]]
        ELSE IF command.command = "move"
        THEN LET actionObjects == findMatchingObjects(command.entity, worldObjs, TRUE)
                 targetObjects == findMatchingObjects(command.location.entity,
                                                      worldObjs, FALSE)
                 moved == moveLiterals(actionObjects, targetObjects, worldObjs,
                                       command.location.relation, 1)
             IN  IF Len(moved) = 0 THEN [thrown |-> "No interpetation!"]
                 ELSE [returned |-> moved]
        ELSE [thrown |-> "Not implemented."]

\* The colour of the objects of each shape of LawShapes.
ShapeColours == <<"white", "red", "yellow", "green", "blue", "black">>

\* state.objects for the interpreter: the objects have different shapes.
InterpObjectDefs ==
    { [o \in Objects |->
          LET k == f[CHOOSE j \in 1..NumObjects : Catalogue[j].id = o]
          IN  [form |-> LawShapes[k].form, size |-> LawShapes[k].size,
               color |-> ShapeColours[k]]] :
        f \in {g \in [1..NumObjects -> 1..Len(LawShapes)] :
                  \A i \in 1..(NumObjects - 1) : g[i] < g[i + 1]} }

\* The worlds a command is interpreted in: they obey the physical laws.
InterpWorlds ==
    { [stacks |-> w.stacks, arm |-> w.arm, holding |-> w.holding, objects |-> defs] :
        w \in {p \in Placements : p.arm = 0}, defs \in InterpObjectDefs }

\* What the parser gives for a noun phrase without a relative clause
Describe(form, size, color) == [form |-> form, size |-> size, color |-> color]

SimpleDescriptions ==
    { Describe(f, null, null) : f \in {"anyform", "ball", "box", "pyramid", "floor"} }
    \cup { Describe("box", "small", null), Describe("anyform", null, "white") }

Entity(object) == [quantifier |-> "the", object |-> object]

Location(relation, entity) == [relation |-> relation, entity |-> entity]

\* Noun phrases with one relative clause
RelativeDescriptions ==
    { [object |-> Describe("ball", null, null),
       location |-> Location("inside", Entity(Describe("box", null, null)))],
      [object |-> Describe("anyform", null, null),
       location |-> Location("ontop", Entity(Describe("floor", null, null)))],
      [object |-> Describe("box", null, null),
       location |-> Location("leftof", Entity(Describe("anyform", null, null)))] }

TargetLocations ==
    { Location(r, Entity(d)) :
        r \in {"inside", "ontop", "beside"},
        d \in { Describe(f, null, null) : f \in {"anyform", "box", "floor"} } }
    \cup { Location("above", Entity(Describe("ball", null, null))) }

Commands ==
    { [command |-> "take", entity |-> Entity(d)] :
        d \in SimpleDescriptions \cup RelativeDescriptions }
    \cup { [command |-> "put", location |-> l] : l \in TargetLocations }
    \cup { [command |-> "move", entity |-> Entity(d), location |-> l] :
             d \in { Describe(f, null, null) : f \in {"anyform", "ball", "pyramid", "floor"} }
                   \cup RelativeDescriptions,
             l \in TargetLocations }
    \cup { [command |-> "where", entity |-> Entity(Describe("ball", null, null))] }

\* interpretCommand(cmd, state) about to be called.
InterpInit ==
    /\ cmd \in Commands
    /\ state \in InterpWorlds
    /\ obeysLaws(state.stacks, state.objects)
    /\ interpOut = <<>>
    /\ lawArgs = undefined
    /\ lawRet = <<>>
    /\ currentNode = noRef
    /\ graph = [kind |-> "world", objects |-> state.objects]
    /\ thisNode = undefined
    /\ from = undefined
    /\ goalRet = <<>>
    /\ hRet = <<>>
    /\ heap = <<>>
    /\ nodes = <<>>
    /\ lastCall = undefined
    /\ goalArg = <<>>
    /\ hArg = <<>>
    /\ timeout = PlannerTimeout
    /\ elapsed = 0
    /\ start = undefined
    /\ costDict = <<>>
    /\ fValDict = <<>>
    /\ parentDict = <<>>
    /\ frontier = <<>>
    /\ visited = {}
    /\ pc = "interpret"
    /\ goalRef = noRef
    /\ followCur = noRef
    /\ path = <<>>
    /\ result = undefined
    /\ log = <<>>
    /\ currentState = undefined
    /\ interpretations = <<>>
    /\ idx = 0
    /\ plans = <<>>
    /\ errors = <<>>
    /\ planOut = undefined

\* The call of interpretCommand: it returns a formula or throws.
InterpretCommand ==
    /\ pc = "interpret"
    /\ interpOut = <<>>
    /\ interpOut' = <<interpretCommand(cmd, state)>>
    /\ UNCHANGED <<cmd, state, lawArgs, lawRet>>
    /\ UNCHANGED searchVars
    /\ UNCHANGED planVars
    /\ UNCHANGED worldVars
    /\ UNCHANGED storeVars
    /\ UNCHANGED loopVars

InterpNext == InterpretCommand

InterpSpec == InterpInit /\ [][InterpNext]_vars

\* ===================================================================
\* Reference notions the properties are stated with
\* ===================================================================

\* -- explicit graphs: cheapest cost between nodes (Bellman-Ford)
MinOfSet(S) == IF S = {} THEN Infinity ELSE CHOOSE x \in S : \A y \in S : x <= y

RECURSIVE relax(_, _)
relax(d, k) ==
    IF k = 0 THEN d
    ELSE relax([n \in Nodes |->
                  MinOfSet({d[n]} \cup {Plus(d[m], EdgeCost(graph, m, n)) :
                                         m \in {x \in Nodes : <<x, n>> \in graph.edges}})],
               k - 1)

distFrom(s) == relax([n \in Nodes |-> IF n = s THEN 0 ELSE Infinity], NumNodes)

\* cheapest cost from s to a node satisfying the goal predicate (s included)
minGoalCost(s) == MinOfSet({distFrom(s)[g] : g \in goalArg})

admissible == \A n \in Nodes : hArg[n] <= minGoalCost(n)

goalReachable == minGoalCost(start) < Infinity

isEdge(m, n) == <<m, n>> \in graph.edges

RECURSIVE pathCost(_, _)
pathCost(p, i) ==
    IF i >= Len(p) THEN 0
    ELSE EdgeCost(graph, p[i].n, p[i + 1].n) + pathCost(p, i + 1)

succeeded == pc = "returned" /\ result # undefined

timedOut == pc = "returned" /\ result = undefined /\ Len(log) > 0 /\ log[1] = "Timeout!"

exhausted == pc = "returned" /\ result = undefined /\ log = <<"Failure! No path found">>

\* -- block world: the relations of a goal formula, by their definition
position(n, x) ==
    {<<c, r>> \in (0..(Len(n.stacks) - 1)) \X (0..(NumObjects - 1)) :
        r < Len(At(n.stacks, c)) /\ At(At(n.stacks, c), r) = x}

literalTrue(n, lit) ==
    LET x == lit.args[1]
    IN  IF lit.relation = "holding" THEN n.holding = x
        ELSE LET y == lit.args[2]
             IN  \E px \in position(n, x) :
                    \/ /\ y = "floor"
                       /\ lit.relation \in {"ontop", "inside"}
                       /\ px[2] = 0
                    \/ \E py \in position(n, y) :
                        CASE lit.relation = "leftof" -> px[1] < py[1]
                          [] lit.relation = "rightof" -> px[1] > py[1]
                          [] lit.relation \in {"ontop", "inside"} ->
                                px[1] = py[1] /\ px[2] = py[2] + 1
                          [] lit.relation = "under" -> px[1] = py[1] /\ px[2] < py[2]
                          [] lit.relation = "above" -> px[1] = py[1] /\ px[2] > py[2]
                          [] lit.relation = "beside" ->
                                px[1] - py[1] = 1 \/ py[1] - px[1] = 1
                          [] OTHER -> FALSE

\* a state satisfies a DNF formula: some conjunction has all its literals true
satisfies(n, formula) ==
    \E c \in 1..Len(formula) :
        \A l \in 1..Len(formula[c]) : literalTrue(n, formula[c][l])

\* -- block world: the primitive actions and when they are legal
ActionTokens == {"l", "r", "p", "d"}

topOf(n) == LET col == At(n.stacks, n.armCol) IN col[Len(col)]

canRest(x, y) ==
    \/ obeyLaws(ObjectDefs[x], ObjectDefs[y], "ontop")
    \/ obeyLaws(ObjectDefs[x], ObjectDefs[y], "inside")

legal(n, t) ==
    CASE t = "l" -> n.armCol > 0
      [] t = "r" -> n.armCol < Len(n.stacks) - 1
      [] t = "p" -> n.holding = null /\ Len(At(n.stacks, n.armCol)) > 0
      [] t = "d" -> /\ n.holding # null
                    /\ (Len(At(n.stacks, n.armCol)) = 0 \/ canRest(n.holding, topOf(n)))
      [] OTHER -> FALSE

apply(n, t) ==
    CASE t = "l" -> [n EXCEPT !.armCol = @ - 1]
      [] t = "r" -> [n EXCEPT !.armCol = @ + 1]
      [] t = "p" -> [n EXCEPT !.holding = topOf(n),
                              !.stacks = pop(n.stacks, n.armCol)]
      [] t = "d" -> [n EXCEPT !.holding = null,
                              !.stacks = push(n.stacks, n.armCol, n.holding)]

\* the plan is legal from n at every step
RECURSIVE legalFrom(_, _, _)
legalFrom(n, plan, i) ==
    IF i > Len(plan) THEN TRUE
    ELSE legal(n, plan[i]) /\ legalFrom(apply(n, plan[i]), plan, i + 1)

RECURSIVE stateAfter(_, _, _)
stateAfter(n, plan, i) ==
    IF i > Len(plan) THEN n ELSE stateAfter(apply(n, plan[i]), plan, i + 1)

isAction(t) == t \in ActionTokens

actionsOf(plan) == SelectSeq(plan, isAction)

successors(n) == {apply(n, t) : t \in {u \in ActionTokens : legal(n, u)}}

\* fewest legal actions from a set of states to a state satisfying formula
RECURSIVE bfs(_, _, _, _)
bfs(layer, seen, formula, d) ==
    IF \E n \in layer : satisfies(n, formula) THEN d
    ELSE LET nxt == (UNION {successors(n) : n \in layer}) \ seen
         IN  IF nxt = {} THEN Infinity ELSE bfs(nxt, seen \cup nxt, formula, d + 1)

minActions(n, formula) == bfs({n}, {n}, formula, 0)

startNode == WorldNode(currentState.stacks, currentState.arm, currentState.holding)

\* ===================================================================
\* Properties
\* ===================================================================

notice == "That is already true!"

inLog(m) == \E i \in 1..Len(log) : log[i] = m

\* C1: every plan that planInterpretation returned is legal at every step
\* from the initial world state, and the state after its last action token
\* satisfies the goal formula.
C1_PlanLegalAndReachesGoal ==
    \A i \in 1..Len(plans) :
        LET acts == actionsOf(plans[i].plan)
        IN  /\ legalFrom(startNode, acts, 1)
            /\ satisfies(stateAfter(startNode, acts, 1), plans[i].interpretation)

\* C2: with an admissible heuristic, the cost of a returned result is the
\* minimum cost from start to a node satisfying the goal predicate.
C2_ResultIsOptimal ==
    (succeeded /\ admissible) => result.cost = minGoalCost(start)

\* C3: a returned path begins with start, follows edges of the graph, ends in
\* a goal node, and the returned cost is the sum of its edge costs.
C3_ResultIsPath ==
    succeeded =>
        /\ result.path[1].n = start
        /\ \A i \in 1..(Len(result.path) - 1) :
              isEdge(result.path[i].n, result.path[i + 1].n)
        /\ goalf(result.path[Len(result.path)].n)
        /\ result.cost = pathCost(result.path, 1)

\* C4: the search fails by exhaustion of the frontier only if no node
\* satisfying the goal predicate is reachable from start (start included).
C4_ExhaustionOnlyIfUnreachable ==
    exhausted => ~goalReachable

\* C5: the number of action tokens of a returned plan is the minimum number
\* of legal actions from the initial state to a state satisfying the goal.
C5_PlanIsShortest ==
    \A i \in 1..Len(plans) :
        Len(actionsOf(plans[i].plan)) = minActions(startNode, plans[i].interpretation)

\* C6: when the initial state satisfies the goal formula, the plan returned
\* for that interpretation is exactly the notice, with no action token.
C6_AlreadyTrueNotice ==
    (pc = "plan" /\ idx = 2 /\ ~inLog("Timeout!")
        /\ satisfies(startNode, interpretations[1].interpretation))
    => (Len(plans) = 1 /\ plans[1].plan = <<notice>>)

\* C7: when no reachable state satisfies the goal formula of any of the
\* interpretations, plan() throws and returns no plan.
C7_UnreachableThrows ==
    (pc = "done" /\ \A i \in 1..Len(interpretations) :
            minActions(startNode, interpretations[i].interpretation) = Infinity)
    => ("thrown" \in DOMAIN planOut /\ plans = <<>>)

\* C8: what aStarSearch returns when the time budget is exceeded differs
\* from what it returns when the frontier is exhausted (undefined).
C8_TimeoutDistinctFromExhaustion ==
    (pc = "returned" /\ inLog("Timeout!")) => result # undefined

\* C9: the time budget is checked at the start of every iteration of the
\* search loop; when it is found exceeded the iteration expands nothing and
\* the search returns a failure with no path, whatever the frontier holds.
C9_TimeoutStopsSearch ==
    [][ (pc = "loop" /\ frontier # <<>> /\ elapsed' > 1000 * timeout)
            => /\ pc' = "returned"
               /\ result' = undefined
               /\ frontier' = frontier
               /\ visited' = visited
               /\ costDict' = costDict
               /\ fValDict' = fValDict
               /\ parentDict' = parentDict ]_vars

\* The search timed out after some expansions, with a node in the frontier
\* from which a goal node can be reached.
C9_Witness ==
    /\ graph.kind = "test"
    /\ timedOut
    /\ visited # {}
    /\ \E i \in 1..Len(frontier) : minGoalCost(frontier[i].n) < Infinity

\* C10: every run of aStarSearch on a finite graph ends.
C10_SearchTerminates == <>(pc = "returned")

\* C11: aStarSearch evaluates the goal predicate on the node it has just
\* removed from the frontier: when the search leaves its loop with success,
\* the node it hands to followParent is that dequeued node, never a
\* neighbour that was only generated.
C11_GoalTestedOnDequeued ==
    [][ (pc = "loop" /\ pc' = "follow")
            => goalRef' = frontier[dequeueIndex(frontier, fValDict)] ]_vars

\* -- goal closure: the objects a literal names that are in no stack
unplaced(n, lit) ==
    {x \in {lit.args[i] : i \in 1..Len(lit.args)} :
        x # "floor" /\ position(n, x) = {}}

conjunctionTrue(n, conj) == \A l \in 1..Len(conj) : literalTrue(n, conj[l])

\* C12: the goal predicate returns true exactly when some conjunction of
\* the DNF formula has every one of its literals true in the state.
C12_GoalIsDNF ==
    goalRet # <<>> => (goalRet[1] <=> satisfies(thisNode, goalArg))

\* C13: a literal naming an object that is in no stack makes false only its
\* own conjunction: when another conjunction of the formula is fully
\* satisfied by the state, the goal predicate returns true.
C13_UnplacedOnlyFailsItsConjunction ==
    (/\ goalRet # <<>>
     /\ \E c, d \in 1..Len(goalArg) :
            /\ c # d
            /\ \E l \in 1..Len(goalArg[c]) : unplaced(thisNode, goalArg[c][l]) # {}
            /\ conjunctionTrue(thisNode, goalArg[d]))
        => goalRet[1]

\* -- block world: what rests directly on what, and the successors by kind
generated == from # undefined

\* <<x, y>>: the definitions of an object and of the object directly below
resting(n, objects) ==
    UNION { { <<objects[n.stacks[c][i]], objects[n.stacks[c][i - 1]]>> :
                i \in 2..Len(n.stacks[c]) } : c \in 1..Len(n.stacks) }

armColumn(n) == At(n.stacks, n.armCol)

\* the definition of the held object and of the top object below the arm
\* (only where the arm holds an object over a non-empty column)
heldDef == graph.objects[thisNode.holding]

topDef == graph.objects[topOf(thisNode)]

overObject == generated /\ thisNode.holding # null /\ Len(armColumn(thisNode)) > 0

ns == neighbours(thisNode, graph.objects)

\* C14: from a world that obeys the laws, no generated state has an object
\* resting directly on a ball, nor a large object directly on a small one.
C14_NothingOnBallNoLargeOnSmall ==
    generated =>
        \A p \in resting(thisNode, graph.objects) :
            /\ p[2].form # "ball"
            /\ ~(p[1].size = "large" /\ p[2].size = "small")

\* neighbours() was taken with the arm holding an object over a ball, or a
\* large object over a small one, and the object is still in the arm
C14_Witness ==
    /\ generated /\ from.holding # null /\ thisNode.holding = from.holding
    /\ Len(armColumn(from)) > 0
    /\ LET A == graph.objects[from.holding]
           B == graph.objects[topOf(from)]
       IN  B.form = "ball" \/ (A.size = "large" /\ B.size = "small")

\* C15: from a world that obeys the laws, in every generated state each
\* ball that is in a stack is at row 0 or directly on top of a box.
C15_BallOnFloorOrInBox ==
    generated =>
        \A p \in resting(thisNode, graph.objects) :
            p[1].form = "ball" => p[2].form = "box"

\* a ball has just been dropped into a box
C15_Witness ==
    /\ generated /\ from.holding # null /\ thisNode.holding = null
    /\ graph.objects[from.holding].form = "ball"
    /\ Len(armColumn(thisNode)) > 1

\* C16: from a world that obeys the laws, no generated state has a
\* pyramid, a plank or a box directly inside a box of its own size.
C16_NoSameSizeInBox ==
    generated =>
        \A p \in resting(thisNode, graph.objects) :
            ~(/\ p[2].form = "box"
              /\ p[1].form \in {"pyramid", "plank", "box"}
              /\ p[1].size = p[2].size)

\* C17: from a world that obeys the laws, no generated state has a small
\* box directly on a small brick, pyramid or box, nor a large box directly
\* on a large box.
C17_BoxSupport ==
    generated =>
        \A p \in resting(thisNode, graph.objects) :
            /\ ~(/\ p[1].form = "box" /\ p[1].size = "small" /\ p[2].size = "small"
                 /\ p[2].form \in {"brick", "pyramid", "box"})
            /\ ~(/\ p[1].form = "box" /\ p[1].size = "large"
                 /\ p[2].form = "box" /\ p[2].size = "large")

\* neighbours() was taken with a small box held over a small brick, and the
\* box is still in the arm
C17_Witness ==
    /\ generated /\ from.holding # null /\ thisNode.holding = from.holding
    /\ Len(armColumn(from)) > 0
    /\ LET A == graph.objects[from.holding]
           B == graph.objects[topOf(from)]
       IN  /\ A.form = "box" /\ A.size = "small"
           /\ B.form = "brick" /\ B.size = "small"

\* C18: with an object in the arm, neighbours() holds a drop successor (the
\* held object pushed on the arm's column, arm empty, nothing else changed)
\* when the column is empty, and otherwise exactly when the physical laws
\* allow the held object to rest on the top object of the column.
C18_DropIffLawsAllow ==
    thisNode.holding # null =>
        LET drops == {i \in 1..Len(ns) : ns[i].holding = null}
            dropped == [stacks |-> [thisNode.stacks EXCEPT ![thisNode.armCol + 1] =
                                        Append(@, thisNode.holding)],
                        armCol |-> thisNode.armCol,
                        holding |-> null]
            allowed == \/ Len(armColumn(thisNode)) = 0
                       \/ lawsAllow(heldDef, topDef)
        IN  /\ allowed <=> drops # {}
            /\ \A i \in drops : ns[i] = dropped

\* C19: with the arm empty over a non-empty column, neighbours() holds
\* exactly one pick successor: the top object of the arm's column is gone
\* from the stack and held, nothing else changed; otherwise it holds none.
C19_PickSuccessor ==
    LET picks == {i \in 1..Len(ns) : ns[i].holding # thisNode.holding /\ ns[i].holding # null}
        column == armColumn(thisNode)
        picked == [stacks |-> [thisNode.stacks EXCEPT ![thisNode.armCol + 1] =
                                    SubSeq(column, 1, Len(column) - 1)],
                   armCol |-> thisNode.armCol,
                   holding |-> column[Len(column)]]
    IN  IF thisNode.holding = null /\ Len(column) > 0
        THEN /\ Cardinality(picks) = 1
             /\ \A i \in picks : ns[i] = picked
             /\ \A i \in 1..Len(ns) :
                    ns[i].stacks # thisNode.stacks => i \in picks
        ELSE picks = {}

\* a pick was taken from a column of two or more objects, and neighbours()
\* is taken again from the state it produced, whose arm now holds an object
C19_Witness ==
    /\ generated /\ from.holding = null /\ thisNode.holding # null
    /\ Len(armColumn(thisNode)) > 0

C21_ArmColumnInRange ==
    generated => (0 <= thisNode.armCol /\ thisNode.armCol < Len(thisNode.stacks))

\* the arm has just moved up to the last column
C21_Witness ==
    /\ generated
    /\ from.armCol = thisNode.armCol - 1
    /\ thisNode.armCol = Len(thisNode.stacks) - 1

\* C22: in every state reachable through neighbours() from a start state
\* whose held object is in no stack, the arm holds at most one object and
\* the held object is in no stack.
C22_HeldObjectInNoStack ==
    generated =>
        /\ thisNode.holding \in Objects \cup {null}
        /\ thisNode.holding # null => position(thisNode, thisNode.holding) = {}

\* the arm has just picked the top object of its column, or just dropped
C22_Witness ==
    /\ generated
    /\ \/ from.holding = null /\ thisNode.holding = topOf(from)
       \/ from.holding # null /\ thisNode.holding = null

\* -- nodes and arrays: the configuration a node has with the arrays hp
config(hp, nd) == WorldNode(hp[nd.stacks], nd.armCol, nd.holding)

RECURSIVE followFrom(_, _, _)
followFrom(parent, current, p) ==
    IF current.s THEN p
    ELSE LET up == getValue(parent, toString(current.n))
         IN  followFrom(parent, up, <<up>> \o p)

RECURSIVE runSearch(_, _)
runSearch(st, vis) ==
    IF st.frontier = <<>> THEN <<>>
    ELSE LET i == dequeueIndex(st.frontier, st.fval)
             current == st.frontier[i]
             st1 == expandEdges([st EXCEPT !.frontier = removeAt(@, i)], current,
                                outgoingEdges(current.n), 1, vis)
         IN  IF st1.ret # <<>>
             THEN <<[path |-> followFrom(st1.parent, st1.ret[1], st1.ret),
                     cost |-> getValue(st1.cost, toString(st1.ret[1].n))]>>
             ELSE runSearch(st1, vis \cup {toString(current.n)})

\* the search for the interpretation at hand, started afresh from the
\* caller's currentState
freshSearch ==
    LET si == searchInit(startNode, heuristics(startNode, goalArg),
                         worldToString(startNode))
    IN  runSearch([cost |-> si.costDict, fval |-> si.fValDict,
                   parent |-> si.parentDict, frontier |-> si.frontier,
                   ret |-> <<>>], si.visited)

successorsOf(n, objects) ==
    {neighbours(n, objects)[i] : i \in 1..Len(neighbours(n, objects))}

nearby ==
    LET around(m) == successorsOf(m, graph.objects)
        twice(m) == UNION {around(x) : x \in around(m)}
    IN  {thisNode} \cup around(thisNode) \cup twice(thisNode)
            \cup (IF generated THEN {from} \cup around(from) ELSE {})

\* C25: compare() treats two world nodes as equal, and toString() gives
\* them the same key, exactly when their stacks, arm column and held
\* object are all identical.
C25_CompareIsStructural ==
    \A m \in nearby :
        /\ (compare(thisNode, m) = 0) <=> (m = thisNode)
        /\ (worldToString(thisNode) = worldToString(m)) <=> (m = thisNode)

\* the node at hand differs from the node it came from in the arm column
\* only, and equals a node generated two steps on
C25_Witness ==
    /\ generated
    /\ from.stacks = thisNode.stacks /\ from.holding = thisNode.holding
    /\ from.armCol # thisNode.armCol
    /\ \E x \in successorsOf(thisNode, graph.objects) :
            thisNode \in successorsOf(x, graph.objects)

\* C26: the planner's heuristic is admissible: heuristics(n) is at most the
\* fewest primitive actions that lead from n to a state satisfying the goal.
C26_HeuristicAdmissible ==
    hRet # <<>> => hRet[1] <= minActions(thisNode, goalArg)

\* C27: for every state that satisfies the goal predicate, the planner's
\* heuristic returns 0.
C27_HeuristicZeroAtGoal ==
    (goalRet # <<>> /\ hRet # <<>> /\ goalRet[1]) => hRet[1] = 0

\* both closures were called on a goal state for one of whose literals the
\* estimate by itself is above 0
C27_Witness ==
    /\ goalRet = <<TRUE>> /\ hRet = <<0>>
    /\ \E i \in 1..Len(flatten(goalArg)) :
            literalEstimate(flatten(goalArg)[i], thisNode) > 0

\* C28: for every state and every goal formula handed to the planner, a
\* formula with no conjunction included, the heuristic returns a finite
\* number that is not negative.
C28_HeuristicFiniteNonNegative ==
    hRet # <<>> => (0 <= hRet[1] /\ isFinite(hRet[1]))

\* -- the formula is one literal; its relation and operands
oneLiteral == Len(goalArg) = 1 /\ Len(goalArg[1]) = 1

theLiteral == goalArg[1][1]

\* C29: for a formula of the single literal ontop(x,y) or inside(x,y) the
\* goal predicate is true exactly when x is in the column of y one row
\* above it, or y is "floor" and x is at row 0 of some column.
C29_OntopInside ==
    (goalRet # <<>> /\ oneLiteral /\ theLiteral.relation \in {"ontop", "inside"}) =>
        LET x == theLiteral.args[1]
            y == theLiteral.args[2]
        IN  goalRet[1] <=>
                \/ \E px \in position(thisNode, x), py \in position(thisNode, y) :
                        px[1] = py[1] /\ px[2] = py[2] + 1
                \/ (y = "floor" /\ \E px \in position(thisNode, x) : px[2] = 0)

\* the predicate was called for ontop(x, floor) with x on the floor
C29_Witness ==
    /\ goalRet = <<TRUE>> /\ oneLiteral
    /\ theLiteral.relation = "ontop" /\ theLiteral.args[2] = "floor"

C31_RelationNameMatchesSupport ==
    (lawRet = <<TRUE>> /\ lawArgs.relation \in {"inside", "ontop"}) =>
        LET A == lawArgs.mainObject
            B == lawArgs.relativeObject
            other == IF lawArgs.relation = "inside" THEN "ontop" ELSE "inside"
        IN  /\ (lawArgs.relation = "inside") <=> (B.form = "box")
            /\ ~obeyLaws(A, B, other)

\* a placement inside a box was accepted
C31_Witness ==
    /\ lawRet = <<TRUE>>
    /\ lawArgs.relation = "inside"
    /\ lawArgs.relativeObject.form = "box"

C33_ExamplePlan ==
    (/\ pc = "done"
     /\ currentState = exampleWorld
     /\ interpretations = <<[interpretation |-> insideAB]>>
     /\ ~inLog("Timeout!"))
    => planOut = [returned |-> <<[interpretation |-> insideAB,
                                  plan |-> <<"p", "r", "d">>]>>]

\* plan() has returned for the example world and the goal inside(a,b)
C33_Witness ==
    /\ pc = "done"
    /\ currentState = exampleWorld
    /\ interpretations = <<[interpretation |-> insideAB]>>
    /\ "returned" \in DOMAIN planOut

\* -- interpretCommand: the formula it returned, and an operand of one of
\* its literals as interpretCommand sees it
returnedFormula ==
    IF interpOut # <<>> /\ "returned" \in DOMAIN interpOut[1]
    THEN interpOut[1].returned ELSE <<>>

seenAs(x) ==
    IF x = state.holding THEN WorldObject(state.objects[x], -1, -1, x)
    ELSE objectOf(worldObjsOf(state), x)

\* C34: every literal relation(A,B) that interpretCommand puts into the
\* formula for a move or put command names two different objects and
\* satisfies obeyLaws(A,B,relation), so that no literal handed to the
\* planner asks for an object to rest on one the physical laws forbid.
C34_LiteralsObeyLaws ==
    (interpOut # <<>> /\ cmd.command \in {"move", "put"}) =>
        \A c \in 1..Len(returnedFormula) : \A l \in 1..Len(returnedFormula[c]) :
            LET lit == returnedFormula[c][l]
                A == lit.args[1]
                B == lit.args[2]
            IN  /\ A # B
                /\ obeyLaws(seenAs(A), seenAs(B), lit.relation)
                /\ (lit.relation \in {"ontop", "inside"} /\ A \in Objects /\ B \in Objects)
                        => lawsAllow(state.objects[A], state.objects[B])

\* C35: interpretCommand never returns an empty formula: a command with no
\* valid interpretation makes it throw; and a put command issued while
\* the arm holds nothing throws "Arm is holding nothing".
C35_NeverEmptyFormula ==
    interpOut # <<>> =>
        /\ "returned" \in DOMAIN interpOut[1] => interpOut[1].returned # <<>>
        /\ (cmd.command = "put" /\ state.holding = null)
                => interpOut[1] = [thrown |-> "Arm is holding nothing"]

\* -- plan(): the interpretations whose planning raised an error, and those
\* left, in input order
failedAt == {errors[k].at : k \in 1..Len(errors)}

RECURSIVE succeededFrom(_)
succeededFrom(i) ==
    IF i > Len(interpretations) THEN <<>>
    ELSE (IF i \in failedAt THEN <<>> ELSE <<i>>) \o succeededFrom(i + 1)

\* C36: plan() returns one result per interpretation whose planning
\* succeeded, in input order, and drops those whose planning raised an
\* error; it throws only when every interpretation failed, and then it
\* throws the error of the first interpretation that failed.
C36_PlanDropsFailures ==
    pc = "done" =>
        LET ok == succeededFrom(1)
        IN  IF ok # <<>>
            THEN /\ "returned" \in DOMAIN planOut
                 /\ Len(planOut.returned) = Len(ok)
                 /\ \A k \in 1..Len(ok) :
                        planOut.returned[k].interpretation
                            = interpretations[ok[k]].interpretation
            ELSE /\ "thrown" \in DOMAIN planOut
                 /\ planOut.thrown.at = 1

\* plan() has returned the plan of the second of two interpretations, the
\* first having failed
C36_Witness ==
    /\ pc = "done"
    /\ Len(interpretations) = 2
    /\ failedAt = {1}
    /\ "returned" \in DOMAIN planOut
    /\ Len(planOut.returned) = 1

\* -- the step of the search loop that dequeues: within the time budget,
\* with a frontier that is not empty
dequeues == pc = "loop" /\ frontier # <<>> /\ ~(elapsed' > 1000 * timeout)

\* the entries of the frontier q that hold the node of key k
entriesOf(q, k) == {i \in 1..Len(q) : toString(q[i].n) = k}

C38_ClosedNodesAreFinal ==
    [][ \A k \in visited :
            /\ Cardinality(entriesOf(frontier', k)) <= Cardinality(entriesOf(frontier, k))
            /\ dequeues => toString(currentNode'.n) # k
            /\ k \in DOMAIN costDict => costDict'[k] = costDict[k]
            /\ k \in DOMAIN parentDict => parentDict'[k] = parentDict[k] ]_vars

\* C39: throughout the search the recorded cost g of a node never
\* increases, and for every node with a recorded predecessor
\* g(node) = g(predecessor) + the cost of the edge from the predecessor to
\* the node.
C39_CostsFollowPredecessors ==
    [][ /\ \A k \in DOMAIN costDict : costDict'[k] <= costDict[k]
        /\ \A k \in DOMAIN parentDict' :
              costDict'[k] = costDict'[toString(parentDict'[k].n)]
                                + EdgeCost(graph, parentDict'[k].n, k) ]_vars

\* C40: neighbours() conserves the objects: in every state reachable from
\* the start state each object of the start state occurs exactly once, in
\* one stack position or as the held object, and no other object occurs.
C40_ObjectsConserved ==
    generated =>
        /\ \A o \in Objects : occurrences(thisNode, o) = occurrences(start, o)
        /\ \A o \in Objects : occurrences(thisNode, o) = 1
        /\ thisNode.holding \in Objects \cup {null}
        /\ \A c \in 1..Len(thisNode.stacks) : \A i \in 1..Len(thisNode.stacks[c]) :
                thisNode.stacks[c][i] \in Objects
        /\ Len(thisNode.stacks) = Len(start.stacks)

\* an object picked in one column has just been dropped on an object of
\* another column
C40_Witness ==
    /\ generated
    /\ from.holding # null /\ thisNode.holding = null
    /\ Len(armColumn(thisNode)) > 1
    /\ position(start, from.holding) # {}
    /\ \A p \in position(start, from.holding) : p[1] # thisNode.armCol
====
